---- MODULE Spec2Model ----
(***************************************************************************)
(* tgreddit: a Telegram bot that polls subreddit subscriptions and         *)
(* delivers new top posts to the subscribing chats.                        *)
(*                                                                         *)
(* The model covers the SQLite store (src/src/db.rs), the scheduler loop   *)
(* and its poll path (src/src/main.rs), the dispatcher with its delivery   *)
(* pipelines (src/src/main.rs, src/src/ytdlp.rs, src/src/download.rs),     *)
(* the post classifier (src/src/reddit/types.rs), the handler tree of the *)
(* bot with its Sub, Unsub and Get commands (src/src/bot.rs) and the       *)
(* SeenPostsCache (src/src/seen_posts_cache.rs).                           *)
(*                                                                         *)
(* Conventions                                                             *)
(*   - Option<T>: None is <<>>, Some(v) is <<v>>.                          *)
(*   - A string whose characters matter (a subreddit name, a LIKE          *)
(*     pattern) is a sequence of one-character strings.                    *)
(*   - Variables whose name starts with g_ are history variables: the      *)
(*     program does not hold them, the properties read them.               *)
(*   - The store is reliable: opening the database and executing a         *)
(*     well-formed statement do not fail for reasons outside the data      *)
(*     (a constraint violation is modelled, a disk error is not).          *)
(***************************************************************************)
EXTENDS Integers, Sequences, FiniteSets, TLC

(***************************************************************************)
(* Bounds of the model                                                     *)
(***************************************************************************)
\* number of SIGINT / SIGTERM signals the process receives
MaxSignals == 1

\* media of a gallery post
MaxItems == 2

\* SeenPostsCache alone: calls of mark_seen for the pair under load, and
\* calls that pass an id the pair was given before
MaxMarks == 12

MaxRemarks == 1

(***************************************************************************)
(* Option<T>                                                               *)
(***************************************************************************)
None == <<>>

Some(v) == <<v>>

\* Option::or
OptOr(a, b) == IF a # None THEN a ELSE b

\* Option::unwrap_or
UnwrapOr(a, d) == IF a # None THEN a[1] ELSE d

(***************************************************************************)
(* Strings as character sequences                                          *)
(***************************************************************************)
\* ASCII lower-casing of one character (SQLite's LIKE folds ASCII case)
LowerChar(c) ==
    CASE c = "A" -> "a"
      [] c = "W" -> "w"
      [] c = "R" -> "r"
      [] OTHER -> c

Lower(s) == [i \in 1..Len(s) |-> LowerChar(s[i])]

\* s with its first n characters dropped
Drop(s, n) == SubSeq(s, n + 1, Len(s))

\* str::replace("r/", ""): every non-overlapping occurrence, left to right
RECURSIVE StripRSlash(_)
StripRSlash(s) ==
    IF Len(s) = 0 THEN <<>>
    ELSE IF Len(s) >= 2 /\ s[1] = "r" /\ s[2] = "/" THEN StripRSlash(Drop(s, 2))
    ELSE <<s[1]>> \o StripRSlash(Drop(s, 1))

\* SQLite: text LIKE pattern. '%' matches any run of characters, '_' any one
\* character, every other character matches itself ignoring ASCII case.
RECURSIVE Like(_, _)
Like(text, pattern) ==
    IF Len(pattern) = 0 THEN Len(text) = 0
    ELSE IF pattern[1] = "%"
         THEN \E k \in 0..Len(text) : Like(Drop(text, k), Drop(pattern, 1))
    ELSE IF Len(text) = 0 THEN FALSE
    ELSE IF pattern[1] = "_" THEN Like(Drop(text, 1), Drop(pattern, 1))
    ELSE /\ LowerChar(text[1]) = LowerChar(pattern[1])
         /\ Like(Drop(text, 1), Drop(pattern, 1))

(***************************************************************************)
(* The world outside the program                                           *)
(***************************************************************************)
\* chats that talk to the bot
Chats == {1, 2}

\* the subreddits that exist at the content source, by display name
Subreddits == { <<"A", "w">>, <<"a", "_">> }

\* PostType (src/src/reddit/types.rs:12)
PostTypes == {"image", "video", "link", "self_text", "gallery", "unknown"}

(***************************************************************************)
(* Post classifier (src/src/reddit/types.rs)                               *)
(***************************************************************************)
\* A url is [host |-> Option<string>, gifv |-> BOOLEAN]: host is None when
\* Url::parse fails or the url has no host; gifv says the path ends ".gifv".
is_downloadable_3rd_party(helper) ==
    IF helper.url.host = None THEN FALSE
    ELSE \/ (helper.url.host[1] = "i.imgur.com" /\ helper.url.gifv)
         \/ helper.url.host[1] = "gfycat.com"

\* crosspost_parent_list holds posts that were deserialized (classified)
\* before their child: a parent is modelled by its post_type.
is_downloadable_crosspost(helper) ==
    IF helper.crosspost_parent_list = None THEN FALSE
    ELSE \E i \in 1..Len(helper.crosspost_parent_list[1]) :
            helper.crosspost_parent_list[1][i] = "video"

is_downloadable_video(helper) ==
    \/ helper.is_video
    \/ is_downloadable_crosspost(helper)
    \/ is_downloadable_3rd_party(helper)

\* Variant: post_hint is consulted before the video test
post_type_of_hint_first(helper) ==
    IF helper.post_hint = Some("image") THEN "image"
    ELSE IF helper.post_hint = Some("link") \/ helper.post_hint = Some("rich:video")
         THEN "link"
    ELSE IF is_downloadable_video(helper) THEN "video"
    ELSE IF helper.is_self THEN "self_text"
    ELSE IF UnwrapOr(helper.is_gallery, FALSE) THEN "gallery"
    ELSE "unknown"

post_type_of(helper) ==
    IF is_downloadable_video(helper) THEN "video"
    ELSE IF helper.post_hint = Some("image") THEN "image"
    ELSE IF helper.post_hint = Some("link") \/ helper.post_hint = Some("rich:video")
         THEN "link"
    ELSE IF helper.is_self THEN "self_text"
    ELSE IF UnwrapOr(helper.is_gallery, FALSE) THEN "gallery"
    ELSE "unknown"

\* Post::deserialize: the fields of the payload plus the derived post_type
deserialize(helper) ==
    [id |-> helper.id, subreddit |-> helper.subreddit,
     post_hint |-> helper.post_hint, post_type |-> post_type_of(helper),
     has_gallery_data |-> helper.has_gallery_data]

(***************************************************************************)
(* Content source: the posts that exist and what the endpoints return      *)
(***************************************************************************)
PlainUrl == [host |-> Some("i.redd.it"), gifv |-> FALSE]

RawPost(id, subreddit, is_video, post_hint) ==
    [id |-> id, subreddit |-> subreddit, is_video |-> is_video,
     post_hint |-> post_hint, is_self |-> FALSE, is_gallery |-> None,
     url |-> PlainUrl, crosspost_parent_list |-> None,
     has_gallery_data |-> FALSE]

\* The payloads of the top listing. p2 is a post whose listing payload
\* lacks post_hint (src/src/main.rs:264), p3 a video hosted by reddit.
ListingPayloads ==
    { RawPost("p2", <<"A", "w">>, FALSE, None),
      RawPost("p3", <<"A", "w">>, TRUE, Some("hosted:video")) }

PostIds == { h.id : h \in ListingPayloads }

\* The top listing of a subreddit holds posts of that subreddit.  The name
\* in the path /r/{subreddit}/top.json is matched ignoring case; each post
\* carries the display name of its subreddit.
Listing(subreddit) ==
    { deserialize(h) :
        h \in { x \in ListingPayloads : Lower(x.subreddit) = Lower(subreddit) } }

\* What /api/info.json may answer for a post id: the same post, with
\* post_hint absent or populated (src/src/main.rs:264-266).
RefetchHints == { None, Some("image") }

GetLinkResults(post_id) ==
    { deserialize([h EXCEPT !.post_hint = hint]) :
        h \in { x \in ListingPayloads : x.id = post_id }, hint \in RefetchHints }

\* All sequences without repetition over S of length at most n
RECURSIVE SeqsUpTo(_, _)
SeqsUpTo(S, n) ==
    IF n = 0 \/ S = {} THEN { <<>> }
    ELSE { <<>> } \cup
         UNION { { <<x>> \o t : t \in SeqsUpTo(S \ {x}, n - 1) } : x \in S }

\* get_subreddit_top_posts(subreddit, limit, time) when it succeeds: at most
\* limit posts of the subreddit, in the order of the listing.
TopPostsResults(subreddit, limit) == SeqsUpTo(Listing(subreddit), limit)

\* get_subreddit_about: the display name of the subreddit whose name equals
\* the input ignoring case, or NoSuchSubreddit (HTTP 302) when there is none.
SubredditAbout(input) ==
    IF \E s \in Subreddits : Lower(s) = Lower(input)
    THEN [ok |-> TRUE,
          display_name |-> CHOOSE s \in Subreddits : Lower(s) = Lower(input)]
    ELSE [ok |-> FALSE, display_name |-> <<>>]

\* get_subreddit_about: Ok with the display name, NoSuchSubreddit on a 302, or
\* another error (the request failed, the body is not the expected JSON)
AboutAnswers(input) ==
    LET a == SubredditAbout(input)
    IN { [status |-> IF a.ok THEN "ok" ELSE "no_such",
          display_name |-> a.display_name],
         [status |-> "error", display_name |-> <<>>] }

(***************************************************************************)
(* Configuration (src/src/config.rs)                                       *)
(***************************************************************************)
DEFAULT_LIMIT == 1

DEFAULT_TIME_PERIOD == "day"

\* The configurations the model is run with. skip_initial_send defaults to
\* true (default_skip_initial_send) and may be set to false.
Configs ==
    [skip_initial_send : BOOLEAN,
     default_limit : {None},
     default_time : {None},
     default_filter : {None}]

(***************************************************************************)
(* Store (src/src/db.rs)                                                   *)
(*   post table:         set of [post_id, chat_id, subreddit]              *)
(*   subscription table: sequence of rows in rowid order,                  *)
(*                       [chat_id, subreddit, limit, time, filter]         *)
(* The timestamps created_at and seen_at are never read and are left out.  *)
(***************************************************************************)
\* Variant: the where clause forgets chat_id
is_post_seen_any_chat(post_tbl, chat_id, post) ==
    \E r \in post_tbl : r.post_id = post.id

is_post_seen(post_tbl, chat_id, post) ==
    \E r \in post_tbl : r.post_id = post.id /\ r.chat_id = chat_id

\* Variant: the where clause forgets chat_id
existing_posts_for_subreddit_any_chat(post_tbl, chat_id, subreddit) ==
    \E r \in post_tbl : r.subreddit = subreddit

existing_posts_for_subreddit(post_tbl, chat_id, subreddit) ==
    \E r \in post_tbl : r.chat_id = chat_id /\ r.subreddit = subreddit

\* Variant: the insert statement is prepared and never executed
mark_post_seen_unexecuted(post_tbl, chat_id, post) ==
    [ok |-> TRUE, table |-> post_tbl]

\* Variant: "insert or replace" under a primary key of chat_id alone, which
\* evicts the other rows of the chat
mark_post_seen_replacing(post_tbl, chat_id, post) ==
    [ok |-> TRUE,
     table |-> { r \in post_tbl : r.chat_id # chat_id } \cup
         { [post_id |-> post.id, chat_id |-> chat_id,
            subreddit |-> post.subreddit] }]

\* Variant: the subreddit is stored in lower case
mark_post_seen_lowercased(post_tbl, chat_id, post) ==
    IF \E r \in post_tbl : r.post_id = post.id /\ r.chat_id = chat_id
    THEN [ok |-> FALSE, table |-> post_tbl]
    ELSE [ok |-> TRUE,
          table |-> post_tbl \cup
              { [post_id |-> post.id, chat_id |-> chat_id,
                 subreddit |-> Lower(post.subreddit)] }]

\* insert into post: the primary key (post_id, chat_id) rejects a second row
mark_post_seen(post_tbl, chat_id, post) ==
    IF \E r \in post_tbl : r.post_id = post.id /\ r.chat_id = chat_id
    THEN [ok |-> FALSE, table |-> post_tbl]
    ELSE [ok |-> TRUE,
          table |-> post_tbl \cup
              { [post_id |-> post.id, chat_id |-> chat_id,
                 subreddit |-> post.subreddit] }]

\* Variant: "insert or replace into subscription"
subscribe_replacing(sub_tbl, chat_id, args) ==
    LET Others(r) == ~(r.subreddit = args.subreddit /\ r.chat_id = chat_id)
    IN [ok |-> TRUE,
        table |-> Append(SelectSeq(sub_tbl, Others),
            [chat_id |-> chat_id, subreddit |-> args.subreddit,
             limit |-> args.limit, time |-> args.time,
             filter |-> args.filter])]

\* Variant: the table is created without its primary key
subscribe_without_key(sub_tbl, chat_id, args) ==
    [ok |-> TRUE,
     table |-> Append(sub_tbl,
         [chat_id |-> chat_id, subreddit |-> args.subreddit,
          limit |-> args.limit, time |-> args.time,
          filter |-> args.filter])]

\* insert into subscription: the primary key (subreddit, chat_id) rejects a
\* second row for the pair
subscribe(sub_tbl, chat_id, args) ==
    IF \E i \in 1..Len(sub_tbl) :
          sub_tbl[i].subreddit = args.subreddit /\ sub_tbl[i].chat_id = chat_id
    THEN [ok |-> FALSE, table |-> sub_tbl]
    ELSE [ok |-> TRUE,
          table |-> Append(sub_tbl,
              [chat_id |-> chat_id, subreddit |-> args.subreddit,
               limit |-> args.limit, time |-> args.time,
               filter |-> args.filter])]

\* Variant: the where clause compares with = instead of LIKE
unsubscribe_exact(sub_tbl, chat_id, subreddit) ==
    LET Stays(r) == ~(r.chat_id = chat_id /\ r.subreddit = subreddit)
        rest == SelectSeq(sub_tbl, Stays)
    IN [deleted |-> Len(sub_tbl) - Len(rest) > 0, table |-> rest]

\* delete from subscription where chat_id = :chat_id and subreddit LIKE :subreddit
unsubscribe(sub_tbl, chat_id, subreddit) ==
    LET Stays(r) == ~(r.chat_id = chat_id /\ Like(r.subreddit, subreddit))
        rest == SelectSeq(sub_tbl, Stays)
    IN [deleted |-> Len(sub_tbl) - Len(rest) > 0, table |-> rest]

\* Variant: the select has no where clause
get_subscriptions_for_chat_unfiltered(sub_tbl, chat_id) == sub_tbl

\* select ... from subscription where chat_id = ?, each row read back with
\* Subscription::try_from.  The time and filter columns hold the text that
\* Display gives for the variant and are parsed with from_str; strum derives
\* both from the one serialize_all = "snake_case" attribute, and the model
\* names a variant by that text.
get_subscriptions_for_chat(sub_tbl, chat_id) ==
    LET Mine(r) == r.chat_id = chat_id
    IN SelectSeq(sub_tbl, Mine)

\* Variant: the names are read back in lower case
get_all_subscriptions_lowercased(sub_tbl) ==
    [i \in 1..Len(sub_tbl) |->
        [sub_tbl[i] EXCEPT !.subreddit = Lower(@)]]

\* select ... from subscription: a table scan, in rowid order
get_all_subscriptions(sub_tbl) == sub_tbl

(***************************************************************************)
(* State                                                                   *)
(***************************************************************************)
VARIABLES
    config,              \* Config, read once at startup
    post_table,          \* table post
    subscription_table,  \* table subscription
    alive,               \* the process is running
    shutdown,            \* AtomicBool shutdown (main.rs:51)
    shutdown_rx,         \* broadcast receiver: "empty" or "msg" (main.rs:50)
    bot_running,         \* the dispatcher takes commands (shutdown token)
    signals,             \* signals received so far
    pc,                  \* where the scheduler task is
    subs,                \* check_new_posts: the subscriptions read at cycle start
    si,                  \* check_new_posts: index of the subscription being polled
    posts,               \* check_new_posts_for_subscription: the fetched listing
    pi,                  \* check_new_posts_for_subscription: index of the post
    is_new_subreddit,    \* check_new_posts_for_subscription: local
    only_mark_seen,      \* check_new_posts_for_subscription: local
    g_dispatched,        \* handle_new_post calls of the poll path, per (chat, post), capped at 2
    g_poll,              \* what the current poll did to each post it examined
    g_prior,             \* g_hist of the polled pair when its poll began
    g_hist,              \* per (chat, subreddit): the history of its subscription row
    g_fetch_failed,      \* the fetch of the subscription just left failed
    g_started,           \* the scheduler has started its first cycle
    g_sig_phase,         \* the phase of the scheduler when the first signal came
    fn_in,               \* the input of the function under study
    fn_out,              \* its result, None before it is applied
    st_post,             \* table post of the store under study
    st_subscription,     \* table subscription of the store under study
    st_last,             \* the last operation on that store and its result
    pipeline,            \* the delivery pipeline under study: its position,
                         \* its temporary directories, the album it builds
    seen_posts_cache,    \* the SeenPostsCache under study
    g_marked             \* per (chat, subreddit): the post ids passed to
                         \* mark_seen, in the order of the calls

store_vars == <<post_table, subscription_table>>

signal_vars == <<alive, shutdown, shutdown_rx, bot_running, signals>>

sched_vars == <<pc, subs, si, posts, pi, is_new_subreddit, only_mark_seen>>

ghost_vars == <<g_dispatched, g_poll, g_prior, g_hist, g_fetch_failed>>

\* the variables of the specifications that study one function or the store
\* alone; the bot leaves them as they are
cache_vars == <<seen_posts_cache, g_marked>>

aux_vars == <<fn_in, fn_out, st_post, st_subscription, st_last, pipeline,
              cache_vars>>

\* the variables of the bot
program_vars == <<config, store_vars, signal_vars, sched_vars, ghost_vars,
                  g_started, g_sig_phase>>

vars == <<program_vars, aux_vars>>

\* No pipeline has been entered: no temporary directory exists
PipelineIdle ==
    [pc |-> "idle", pending |-> {}, current |-> 0, held |-> {}, tmp_dirs |-> {},
     created |-> 0]

\* SeenPostsCache::new (src/src/seen_posts_cache.rs:20-25): two empty maps.
\* A HashMap is a function whose domain is the set of its keys.
new ==
    [chats_subreddits_posts |-> <<>>, chats_subreddits_initialized |-> <<>>]

\* No cache is under study: it is as new and nothing was marked
CacheIdle ==
    /\ seen_posts_cache = new
    /\ g_marked = [k \in Chats \X Subreddits |-> <<>>]

AuxIdle ==
    /\ pipeline = PipelineIdle
    /\ CacheIdle
    /\ fn_in = None
    /\ fn_out = None
    /\ st_post = {}
    /\ st_subscription = <<>>
    /\ st_last = None

\* the program as main leaves it when the tasks are spawned
\* table is what the database file holds of table subscription when the
\* process starts, hist the history of its rows
ProgramStart(table, hist) ==
    /\ post_table = {}
    /\ subscription_table = table
    /\ alive = TRUE
    /\ shutdown = FALSE
    /\ shutdown_rx = "empty"
    /\ bot_running = TRUE
    /\ signals = 0
    /\ pc = "loop"
    /\ subs = <<>>
    /\ si = 1
    /\ posts = <<>>
    /\ pi = 1
    /\ is_new_subreddit = FALSE
    /\ only_mark_seen = FALSE
    /\ g_dispatched = [k \in Chats \X PostIds |-> 0]
    /\ g_poll = <<>>
    /\ g_prior = "none"
    /\ g_hist = hist
    /\ g_fetch_failed = FALSE
    /\ g_started = FALSE
    /\ g_sig_phase = "none"

\* the first start, on an empty database
ProgramInit == ProgramStart(<<>>, [k \in Chats \X Subreddits |-> "never"])

Init ==
    /\ config \in Configs
    /\ ProgramInit
    /\ AuxIdle

(***************************************************************************)
(* Bot commands (src/src/bot.rs, handle_command)                           *)
(***************************************************************************)
\* The /sub messages users send: the chat, the subreddit as typed and the
\* parsed options
SubCommands ==
    { [chat_id |-> 1,
       args |-> [subreddit |-> <<"a", "w">>, limit |-> Some(2), time |-> None,
                 filter |-> None]],
      [chat_id |-> 2,
       args |-> [subreddit |-> <<"A", "W">>, limit |-> Some(2), time |-> Some("week"),
                 filter |-> Some("unknown")]],
      [chat_id |-> 2,
       args |-> [subreddit |-> <<"z", "z">>, limit |-> None, time |-> None,
                 filter |-> None]] }

\* What users type after /unsub
UnsubInputs == { <<"a", "w">>, <<"r", "/", "a", "_">>, <<"%">> }

(***************************************************************************)
(* History of the subscription rows, per (chat, subreddit)                 *)
(*   "never"          the pair never had a row                             *)
(*   "new"            its first row exists (or existed), not yet polled    *)
(*   "renewed"        a row created after an earlier one, not yet polled   *)
(*   "sup_marked"     polled once, first-run suppressed, a post was marked *)
(*   "sup_unmarked"   polled once, first-run suppressed, nothing marked    *)
(*   "polled"         any other history                                    *)
(* A poll counts once the fetch has succeeded and the listing is done.     *)
(***************************************************************************)
hist_created(old) == IF old = "never" THEN "new" ELSE "renewed"

\* Command::Sub: ask the content source about the subreddit, then insert a
\* row under its display name.  NoSuchSubreddit is answered with "No such
\* subreddit"; any other error, a conflict of the primary key included, is
\* an Err that handle_command logs and answers with "Something went wrong".
\* Variant: the row is inserted under the name the user typed
handle_sub_verbatim(sub_tbl, chat_id, args, about) ==
    IF about.status = "ok"
    THEN LET res == subscribe(sub_tbl, chat_id, args)
         IN IF res.ok
            THEN [table |-> res.table, reply |-> "Subscribed to r/",
                  name |-> args.subreddit]
            ELSE [table |-> sub_tbl, reply |-> "Something went wrong",
                  name |-> args.subreddit]
    ELSE IF about.status = "no_such"
    THEN [table |-> sub_tbl, reply |-> "No such subreddit", name |-> <<>>]
    ELSE [table |-> sub_tbl, reply |-> "Something went wrong", name |-> <<>>]

handle_sub(sub_tbl, chat_id, args, about) ==
    IF about.status = "ok"
    THEN LET named == [args EXCEPT !.subreddit = about.display_name]
             res == subscribe(sub_tbl, chat_id, named)
         IN IF res.ok
            THEN [table |-> res.table, reply |-> "Subscribed to r/",
                  name |-> named.subreddit]
            ELSE [table |-> sub_tbl, reply |-> "Something went wrong",
                  name |-> named.subreddit]
    ELSE IF about.status = "no_such"
    THEN [table |-> sub_tbl, reply |-> "No such subreddit", name |-> <<>>]
    ELSE [table |-> sub_tbl, reply |-> "Something went wrong", name |-> <<>>]

\* Command::Unsub: Ok(sub) carries the bool unsubscribe returned, and the
\* reply formats it after "r/"; the Err arm is a failure of the statement.
handle_unsub(sub_tbl, chat_id, input) ==
    LET subreddit == StripRSlash(input)
        res == unsubscribe(sub_tbl, chat_id, subreddit)
    IN [table |-> res.table,
        reply |-> IF res.deleted THEN "Unsubscribed from r/true"
                  ELSE "Unsubscribed from r/false",
        name |-> subreddit]

CommandSub(chat_id, args) ==
    /\ alive /\ bot_running
    /\ \E about \in AboutAnswers(args.subreddit) :
          LET res == handle_sub(subscription_table, chat_id, args, about)
          IN /\ subscription_table' = res.table
             /\ g_hist' = IF res.reply = "Subscribed to r/"
                          THEN [g_hist EXCEPT ![<<chat_id, res.name>>] =
                                   hist_created(@)]
                          ELSE g_hist
    /\ UNCHANGED <<aux_vars, g_started, g_sig_phase, config, post_table, signal_vars, sched_vars,
                   g_dispatched, g_poll, g_prior, g_fetch_failed>>

CommandUnsub(chat_id, input) ==
    /\ alive /\ bot_running
    /\ subscription_table' = handle_unsub(subscription_table, chat_id, input).table
    /\ UNCHANGED <<aux_vars, g_started, g_sig_phase, config, post_table, signal_vars, sched_vars, ghost_vars>>

(***************************************************************************)
(* Phases of the scheduler loop (src/src/main.rs:69-86)                    *)
(*   "Idle"        spawned, the while condition not yet evaluated          *)
(*   "Polling"     inside check_new_posts                                  *)
(*   "Sleeping"    in select!, or the sleep is over and the while          *)
(*                 condition is about to be evaluated                      *)
(*   "Terminated"  the task has ended, by leaving the loop or by a panic   *)
(***************************************************************************)
Phase ==
    CASE pc = "loop" -> IF g_started THEN "Sleeping" ELSE "Idle"
      [] pc \in {"fetch", "post", "handle", "mark"} -> "Polling"
      [] pc = "sleep" -> "Sleeping"
      [] OTHER -> "Terminated"

(***************************************************************************)
(* Signal thread (src/src/main.rs:89-105)                                  *)
(***************************************************************************)
\* Variant: shutdown.swap(true) is left out, the channel alone tells the
\* scheduler
Signal_flag_unset ==
    /\ alive
    /\ signals < MaxSignals
    /\ signals' = signals + 1
    /\ shutdown' = shutdown
    /\ bot_running' = FALSE
    /\ IF shutdown_rx # "closed"
       THEN shutdown_rx' = "msg" /\ alive' = alive
       ELSE shutdown_rx' = shutdown_rx /\ alive' = FALSE
    /\ g_sig_phase' = IF g_sig_phase = "none" THEN Phase ELSE g_sig_phase
    /\ UNCHANGED <<aux_vars, g_started, config, store_vars, sched_vars, ghost_vars>>

\* One pass of the loop over forward_signals.forever(): the flag, the
\* dispatcher's shutdown token, then the send on the broadcast channel,
\* which fails only when the receiver has been dropped; process::exit(0)
\* answers the failure.
SignalUpTo(max) ==
    /\ alive
    /\ signals < max
    /\ signals' = signals + 1
    /\ shutdown' = TRUE
    /\ bot_running' = FALSE
    /\ IF shutdown_rx # "closed"
       THEN shutdown_rx' = "msg" /\ alive' = alive
       ELSE shutdown_rx' = shutdown_rx /\ alive' = FALSE
    /\ g_sig_phase' = IF g_sig_phase = "none" THEN Phase ELSE g_sig_phase
    /\ UNCHANGED <<aux_vars, g_started, config, store_vars, sched_vars, ghost_vars>>

Signal == SignalUpTo(MaxSignals)

\* try_join! returns when the dispatcher and the scheduler task have ended
MainReturns ==
    /\ alive
    /\ pc = "terminated"
    /\ ~bot_running
    /\ alive' = FALSE
    /\ UNCHANGED <<aux_vars, g_started, g_sig_phase, config, store_vars, shutdown, shutdown_rx, bot_running, signals,
                   sched_vars, ghost_vars>>

\* try_join! returns the JoinError of the scheduler task, which has
\* panicked and dropped what it owned, the receiver included; main panics
MainPanics ==
    /\ alive
    /\ pc = "panicked"
    /\ alive' = FALSE
    /\ UNCHANGED <<aux_vars, g_started, g_sig_phase, config, store_vars, shutdown, shutdown_rx, bot_running, signals,
                   sched_vars, ghost_vars>>

(***************************************************************************)
(* Dispatcher (src/src/main.rs:114-286)                                    *)
(*                                                                         *)
(* env says how the collaborators answer during one handle_new_post:       *)
(*   env.refetch  "ok" | "err"            reddit::get_link                 *)
(*   env.download "ok" | "err" | "panic"  the download step of a pipeline  *)
(*   env.upload   "ok" | "err"            the messaging-platform call      *)
(* The result is [result, stage, call, post_type]: result is "ok", "err"   *)
(* (an Err returned to the caller) or "panic" (the task unwinds); stage is *)
(* the step that failed ("refetch", "download", "upload") or "done"; call  *)
(* is the messaging-platform call that was made, or "none".                *)
(***************************************************************************)
\* ytdlp::download: Err when yt-dlp cannot be started; a panic when reading
\* its output fails (duct reports a non-zero exit status as a read error),
\* when it wrote no file, or when the file name carries no dimensions.
\* download_url_to_tmp and download_gallery: Err on any failure.
DownloadOutcomes(post_type) ==
    CASE post_type = "video" -> {"ok", "err", "panic"}
      [] post_type \in {"image", "gallery"} -> {"ok", "err"}
      [] OTHER -> {"ok"}

Upload(call, post_type, env) ==
    [result |-> env.upload, stage |-> IF env.upload = "ok" THEN "done" ELSE "upload",
     call |-> call, post_type |-> post_type]

NoCall(result, stage, post_type) ==
    [result |-> result, stage |-> stage, call |-> "none", post_type |-> post_type]

handle_new_video_post(post, env) ==
    IF env.download = "ok" THEN Upload("send_video", post.post_type, env)
    ELSE NoCall(env.download, "download", post.post_type)

handle_new_image_post(post, env) ==
    IF env.download = "ok" THEN Upload("send_photo", post.post_type, env)
    ELSE NoCall(env.download, "download", post.post_type)

handle_new_link_post(post, env) ==
    Upload("send_message_preview", post.post_type, env)

handle_new_self_post(post, env) ==
    Upload("send_message_no_preview", post.post_type, env)

\* gallery_data and media_metadata are read with expect()
handle_new_gallery_post(post, env) ==
    IF ~post.has_gallery_data THEN NoCall("panic", "download", post.post_type)
    ELSE IF env.download = "ok" THEN Upload("send_media_group", post.post_type, env)
    ELSE NoCall(env.download, "download", post.post_type)

\* Variant: an Unknown post goes to the self-text pipeline
dispatch_unknown_as_self(post, env) ==
    CASE post.post_type = "image" -> handle_new_image_post(post, env)
      [] post.post_type = "video" -> handle_new_video_post(post, env)
      [] post.post_type = "link" -> handle_new_link_post(post, env)
      [] post.post_type = "self_text" -> handle_new_self_post(post, env)
      [] post.post_type = "gallery" -> handle_new_gallery_post(post, env)
      [] post.post_type = "unknown" -> handle_new_self_post(post, env)

\* The match on post.post_type (main.rs:272-285)
dispatch(post, env) ==
    CASE post.post_type = "image" -> handle_new_image_post(post, env)
      [] post.post_type = "video" -> handle_new_video_post(post, env)
      [] post.post_type = "link" -> handle_new_link_post(post, env)
      [] post.post_type = "self_text" -> handle_new_self_post(post, env)
      [] post.post_type = "gallery" -> handle_new_gallery_post(post, env)
      [] post.post_type = "unknown" -> handle_new_link_post(post, env)

\* get_link: "none" when reddit::get_link was not called, else how it ended
WithGetLink(r, get_link) ==
    [result |-> r.result, stage |-> r.stage, call |-> r.call,
     post_type |-> r.post_type, get_link |-> get_link]

\* Variant: the post is fetched again, and the listed post is dispatched
handle_new_post_from_listing(listed, refetched, env) ==
    IF listed.post_hint = None
    THEN IF env.refetch = "err"
         THEN WithGetLink(NoCall("panic", "refetch", listed.post_type), "err")
         ELSE WithGetLink(dispatch(listed, env), "ok")
    ELSE WithGetLink(dispatch(listed, env), "none")

\* handle_new_post: listed is the post of the listing, refetched what
\* get_link answers for its id.  get_link(..).unwrap() panics on Err.
handle_new_post(listed, refetched, env) ==
    IF listed.post_hint = None
    THEN IF env.refetch = "err"
         THEN WithGetLink(NoCall("panic", "refetch", listed.post_type), "err")
         ELSE WithGetLink(dispatch(refetched, env), "ok")
    ELSE WithGetLink(dispatch(listed, env), "none")

\* The answers of the collaborators that handle_new_post can meet for a post
Envs(listed, refetched) ==
    LET dispatched == IF listed.post_hint = None THEN refetched ELSE listed
    IN [refetch : IF listed.post_hint = None THEN {"ok", "err"} ELSE {"ok"},
        download : DownloadOutcomes(dispatched.post_type),
        upload : {"ok", "err"}]

(***************************************************************************)
(* Scheduler (src/src/main.rs:69-86, 288-388)                              *)
(***************************************************************************)
\* the subscription being polled
sub == subs[si]

pair == <<sub.chat_id, sub.subreddit>>

\* Variant: the global default takes precedence over the subscription's value
effective_limit_config_first(s) ==
    UnwrapOr(OptOr(config.default_limit, s.limit), DEFAULT_LIMIT)

effective_limit(s) == UnwrapOr(OptOr(s.limit, config.default_limit), DEFAULT_LIMIT)

effective_time(s) == UnwrapOr(OptOr(s.time, config.default_time), DEFAULT_TIME_PERIOD)

effective_filter(s) == OptOr(s.filter, config.default_filter)

\* filter.is_some() && filter.as_ref() != Some(&post.post_type)
filter_rejects(filter, post) == filter # None /\ filter # Some(post.post_type)

\* the scheduler has a sub and a listing in hand
InPoll == pc \in {"post", "handle", "mark"}

\* Variant: the for loop of check_new_posts is left after one subscription
LeaveSubscription_break ==
    /\ subs' = <<>> /\ si' = 1 /\ pc' = "sleep"
    /\ posts' = <<>>
    /\ pi' = 1
    /\ is_new_subreddit' = FALSE
    /\ only_mark_seen' = FALSE
    /\ g_poll' = <<>>
    /\ g_prior' = "none"

\* The scheduler leaves subscription si: the for loop of check_new_posts
\* takes the next one, or the cycle is over and the loop sleeps.
LeaveSubscription ==
    /\ IF si + 1 > Len(subs)
       THEN subs' = <<>> /\ si' = 1 /\ pc' = "sleep"
       ELSE subs' = subs /\ si' = si + 1 /\ pc' = "fetch"
    /\ posts' = <<>>
    /\ pi' = 1
    /\ is_new_subreddit' = FALSE
    /\ only_mark_seen' = FALSE
    /\ g_poll' = <<>>
    /\ g_prior' = "none"

\* Variant: "loop" in place of "while !shutdown.load()"
LoopCheck_unconditional ==
    /\ alive
    /\ pc = "loop"
    /\ subs' = get_all_subscriptions(subscription_table)
    /\ si' = 1
    /\ pc' = IF Len(subs') = 0 THEN "sleep" ELSE "fetch"
    /\ g_fetch_failed' = FALSE
    /\ g_started' = TRUE
    /\ UNCHANGED <<aux_vars, g_sig_phase, config, store_vars, signal_vars,
                   posts, pi, is_new_subreddit, only_mark_seen,
                   g_dispatched, g_poll, g_prior, g_hist>>

\* while !shutdown.load(): leave the loop, or start check_new_posts, which
\* reads all subscriptions
LoopCheck ==
    /\ alive
    /\ pc = "loop"
    /\ IF shutdown
       THEN /\ pc' = "terminated"
            /\ shutdown_rx' = "closed"
            /\ UNCHANGED <<subs, si>>
       ELSE /\ subs' = get_all_subscriptions(subscription_table)
            /\ si' = 1
            /\ pc' = IF Len(subs') = 0 THEN "sleep" ELSE "fetch"
            /\ UNCHANGED shutdown_rx
    /\ g_fetch_failed' = FALSE
    /\ g_started' = TRUE
    /\ UNCHANGED <<aux_vars, g_sig_phase, config, store_vars, alive, shutdown, bot_running, signals,
                   posts, pi, is_new_subreddit, only_mark_seen,
                   g_dispatched, g_poll, g_prior, g_hist>>

\* get_subreddit_top_posts answers Ok(posts): decide whether this is the
\* first run for (chat, subreddit)
FetchOk ==
    /\ alive
    /\ pc = "fetch"
    /\ \E listing \in TopPostsResults(sub.subreddit, effective_limit(sub)) :
          posts' = listing
    /\ pi' = 1
    /\ is_new_subreddit' =
          ~existing_posts_for_subreddit(post_table, sub.chat_id, sub.subreddit)
    /\ only_mark_seen' = (is_new_subreddit' /\ config.skip_initial_send)
    /\ pc' = "post"
    /\ g_poll' = <<>>
    /\ g_prior' = g_hist[pair]
    /\ g_fetch_failed' = FALSE
    /\ UNCHANGED <<aux_vars, g_started, g_sig_phase, config, store_vars, signal_vars, subs, si,
                   g_dispatched, g_hist>>

\* Variant: the Err is propagated with ? through check_new_posts, which
\* ends the cycle
FetchErr_propagated ==
    /\ alive
    /\ pc = "fetch"
    /\ subs' = <<>> /\ si' = 1 /\ pc' = "sleep"
    /\ posts' = <<>>
    /\ pi' = 1
    /\ is_new_subreddit' = FALSE
    /\ only_mark_seen' = FALSE
    /\ g_poll' = <<>>
    /\ g_prior' = "none"
    /\ g_fetch_failed' = TRUE
    /\ UNCHANGED <<aux_vars, g_started, g_sig_phase, config, store_vars, signal_vars, g_dispatched, g_hist>>

\* get_subreddit_top_posts answers Err: logged, Ok(()) is returned
FetchErr ==
    /\ alive
    /\ pc = "fetch"
    /\ LeaveSubscription
    /\ g_fetch_failed' = TRUE
    /\ UNCHANGED <<aux_vars, g_started, g_sig_phase, config, store_vars, signal_vars, g_dispatched, g_hist>>

\* Variant: only_mark_seen is not consulted
newness_verdict_unsuppressed(filter, post, seen, mark_only) ==
    IF filter_rejects(filter, post) THEN "filtered"
    ELSE IF seen THEN "seen"
    ELSE "dispatch"

\* check_post_newness up to the point where it returns early, marks only,
\* or hands the post to handle_new_post (main.rs:296-316)
newness_verdict(filter, post, seen, mark_only) ==
    IF filter_rejects(filter, post) THEN "filtered"
    ELSE IF seen THEN "seen"
    ELSE IF mark_only THEN "suppressed"
    ELSE "dispatch"

CheckPostNewness ==
    /\ alive
    /\ pc = "post"
    /\ pi <= Len(posts)
    /\ LET post == posts[pi]
           verdict == newness_verdict(effective_filter(sub), post,
                          is_post_seen(post_table, sub.chat_id, post), only_mark_seen)
       IN /\ g_poll' = Append(g_poll,
                [id |-> post.id, verdict |-> verdict, result |-> "none",
                 stage |-> "none", call |-> "none", post_type |-> post.post_type])
          /\ CASE verdict \in {"filtered", "seen"} -> pi' = pi + 1 /\ pc' = pc
               [] verdict = "suppressed" -> pi' = pi /\ pc' = "mark"
               [] verdict = "dispatch" -> pi' = pi /\ pc' = "handle"
    /\ UNCHANGED <<aux_vars, g_started, g_sig_phase, config, store_vars, signal_vars, subs, si, posts,
                   is_new_subreddit, only_mark_seen,
                   g_dispatched, g_prior, g_hist, g_fetch_failed>>

\* handle_new_post(config, tg, chat_id, post) and what comes of it: an Err is
\* logged by check_post_newness, a panic ends the scheduler task, and with
\* it (try_join! in main, then panic!) the process
HandleNewPost ==
    /\ alive
    /\ pc = "handle"
    /\ LET post == posts[pi]
           key == <<sub.chat_id, post.id>>
       IN \E refetched \in GetLinkResults(post.id) :
          \E env \in Envs(post, refetched) :
             LET out == handle_new_post(post, refetched, env)
             IN /\ g_dispatched' =
                      [g_dispatched EXCEPT ![key] = IF @ < 2 THEN @ + 1 ELSE @]
                /\ g_poll' = [g_poll EXCEPT ![Len(g_poll)] =
                                [@ EXCEPT !.result = out.result, !.stage = out.stage,
                                          !.call = out.call,
                                          !.post_type = out.post_type]]
                /\ IF out.result = "panic"
                   THEN pc' = "panicked" /\ shutdown_rx' = "closed"
                   ELSE pc' = "mark" /\ shutdown_rx' = shutdown_rx
    /\ UNCHANGED <<aux_vars, g_started, g_sig_phase, config, store_vars, alive, shutdown, bot_running, signals,
                   subs, si, posts, pi, is_new_subreddit, only_mark_seen,
                   g_prior, g_hist, g_fetch_failed>>

\* Variant: the write is handed to a task that is not awaited, and is not
\* done when the next post is examined
MarkPostSeen_not_awaited ==
    /\ alive
    /\ pc = "mark"
    /\ pi' = pi + 1
    /\ pc' = "post"
    /\ UNCHANGED <<aux_vars, g_started, g_sig_phase, config, store_vars, signal_vars,
                   subs, si, posts, is_new_subreddit, only_mark_seen, ghost_vars>>

\* db.mark_post_seen(chat_id, post)?  An Err is logged by the caller
MarkPostSeen ==
    /\ alive
    /\ pc = "mark"
    /\ post_table' = mark_post_seen(post_table, sub.chat_id, posts[pi]).table
    /\ pi' = pi + 1
    /\ pc' = "post"
    /\ UNCHANGED <<aux_vars, g_started, g_sig_phase, config, subscription_table, signal_vars, subs, si, posts,
                   is_new_subreddit, only_mark_seen, ghost_vars>>

\* what the poll that ends adds to the history of its subscription row
hist_after(prior, mark_only, log) ==
    IF prior \notin {"new", "renewed"} \/ ~mark_only THEN "polled"
    ELSE IF \E i \in 1..Len(log) : log[i].verdict = "suppressed" THEN "sup_marked"
    ELSE "sup_unmarked"

\* the for loop over posts is done: check_new_posts_for_subscription returns
EndSubscription ==
    /\ alive
    /\ pc = "post"
    /\ pi > Len(posts)
    /\ g_hist' = [g_hist EXCEPT ![pair] =
                     hist_after(g_prior, only_mark_seen, g_poll)]
    /\ LeaveSubscription
    /\ UNCHANGED <<aux_vars, g_started, g_sig_phase, config, store_vars, signal_vars, g_dispatched, g_fetch_failed>>

\* select!: the sleep of check_interval_secs is over
SleepElapsed ==
    /\ alive
    /\ pc = "sleep"
    /\ pc' = "loop"
    /\ UNCHANGED <<aux_vars, g_started, g_sig_phase, config, store_vars, signal_vars, subs, si, posts, pi,
                   is_new_subreddit, only_mark_seen, ghost_vars>>

\* select!: shutdown_rx.recv() returns, break
ShutdownRecv ==
    /\ alive
    /\ pc = "sleep"
    /\ shutdown_rx = "msg"
    /\ pc' = "terminated"
    /\ shutdown_rx' = "closed"
    /\ UNCHANGED <<aux_vars, g_started, g_sig_phase, config, store_vars, alive, shutdown, bot_running, signals,
                   subs, si, posts, pi, is_new_subreddit, only_mark_seen, ghost_vars>>

Next ==
    \/ \E m \in SubCommands : CommandSub(m.chat_id, m.args)
    \/ \E c \in Chats, i \in UnsubInputs : CommandUnsub(c, i)
    \/ Signal
    \/ MainReturns
    \/ MainPanics
    \/ LoopCheck
    \/ FetchOk
    \/ FetchErr
    \/ CheckPostNewness
    \/ HandleNewPost
    \/ MarkPostSeen
    \/ EndSubscription
    \/ SleepElapsed
    \/ ShutdownRecv

Spec == Init /\ [][Next]_vars

\* The steps of the scheduler task.  The runtime keeps polling a spawned
\* task, and every call the task awaits returns.
SchedulerStep ==
    \/ LoopCheck
    \/ FetchOk
    \/ FetchErr
    \/ CheckPostNewness
    \/ HandleNewPost
    \/ MarkPostSeen
    \/ EndSubscription
    \/ SleepElapsed
    \/ ShutdownRecv

\* The bot where chat 1 alone unsubscribes, which keeps the check of the
\* liveness property small
FairNext ==
    \/ \E m \in SubCommands : CommandSub(m.chat_id, m.args)
    \/ \E i \in UnsubInputs : CommandUnsub(1, i)
    \/ Signal
    \/ MainReturns
    \/ MainPanics
    \/ SchedulerStep

FairSpec == Init /\ [][FairNext]_vars /\ WF_vars(SchedulerStep)

(***************************************************************************)
(* Shutdown alone: the process starts on a database that holds             *)
(* subscriptions, no command arrives, and one signal more than MaxSignals  *)
(* may come.                                                               *)
(***************************************************************************)
StoredSubscriptions ==
    << [chat_id |-> 1, subreddit |-> <<"A", "w">>, limit |-> Some(2),
        time |-> None, filter |-> None],
       [chat_id |-> 2, subreddit |-> <<"A", "w">>, limit |-> None,
        time |-> None, filter |-> None] >>

ShutdownInit ==
    /\ config \in Configs
    /\ ProgramStart(StoredSubscriptions,
                    [k \in Chats \X Subreddits |->
                        IF k[2] = <<"A", "w">> THEN "new" ELSE "never"])
    /\ AuxIdle

SignalAgain == SignalUpTo(MaxSignals + 1)

ShutdownNext ==
    \/ SignalAgain
    \/ MainReturns
    \/ MainPanics
    \/ LoopCheck
    \/ FetchOk
    \/ FetchErr
    \/ CheckPostNewness
    \/ HandleNewPost
    \/ MarkPostSeen
    \/ EndSubscription
    \/ SleepElapsed
    \/ ShutdownRecv

ShutdownSpec == ShutdownInit /\ [][ShutdownNext]_vars

(***************************************************************************)
(* The classifier alone: Post::deserialize applied to one payload          *)
(***************************************************************************)
\* the configuration with every optional key left out (config.rs:30-47)
DefaultConfig ==
    [skip_initial_send |-> TRUE, default_limit |-> None, default_time |-> None,
     default_filter |-> None]

\* The payloads the classifier is given: every combination of the fields it
\* reads.  "hosted:video" is a post_hint none of the rules names.
ClassifierInputs ==
    [id : {"p"}, subreddit : { <<"A", "w">> },
     is_video : BOOLEAN,
     post_hint : {None, Some("image"), Some("link"), Some("rich:video"),
                  Some("hosted:video")},
     is_self : BOOLEAN,
     is_gallery : {None, Some(FALSE), Some(TRUE)},
     url : [host : {None, Some("i.imgur.com"), Some("gfycat.com"), Some("i.redd.it")},
            gifv : BOOLEAN],
     crosspost_parent_list : {None, Some(<<>>), Some(<<"image">>),
                              Some(<<"image", "video">>)},
     has_gallery_data : {FALSE}]

ClassifierInit ==
    /\ config = DefaultConfig
    /\ ProgramInit
    /\ CacheIdle
    /\ fn_in \in ClassifierInputs
    /\ fn_out = None
    /\ st_post = {}
    /\ st_subscription = <<>>
    /\ st_last = None
    /\ pipeline = PipelineIdle

\* serde deserializes the payload into a Post
Classify ==
    /\ fn_out = None
    /\ fn_out' = Some(deserialize(fn_in))
    /\ UNCHANGED <<program_vars, cache_vars, pipeline, fn_in, st_post, st_subscription, st_last>>

ClassifierSpec == ClassifierInit /\ [][Classify]_vars

(***************************************************************************)
(* The store alone: the methods of Database called in any order            *)
(* (src/src/db.rs:61-153)                                                  *)
(***************************************************************************)
\* the arguments subscribe is called with: two spellings of one name, and
\* two limits for the first
StoreArgs ==
    { [subreddit |-> <<"A", "w">>, limit |-> None, time |-> None, filter |-> None],
      [subreddit |-> <<"A", "w">>, limit |-> Some(2), time |-> Some("week"),
       filter |-> Some("video")],
      [subreddit |-> <<"a", "w">>, limit |-> None, time |-> None, filter |-> None] }

\* the subreddit arguments unsubscribe is called with
StorePatterns == { <<"a", "w">>, <<"A", "_">>, <<"%">>, <<"z">> }

\* the posts mark_post_seen is called with
StorePosts == Listing(<<"A", "w">>)

StoreInit ==
    /\ config = DefaultConfig
    /\ ProgramInit
    /\ CacheIdle
    /\ fn_in = None
    /\ fn_out = None
    /\ st_post = {}
    /\ st_subscription = <<>>
    /\ st_last = None
    /\ pipeline = PipelineIdle

\* The subreddit names of the chat's rows, in the order of the table
RowNames(sub_tbl, chat_id) ==
    LET mine == get_subscriptions_for_chat(sub_tbl, chat_id)
    IN [i \in 1..Len(mine) |-> mine[i].subreddit]

\* st_last records the last call: its arguments, whether it returned Ok
\* (ok), the names of the chat's rows before it (had), and in met the
\* bool unsubscribe returned, or whether the post was seen before the call.
\* fn_in holds the SubscriptionArgs when the last call is a subscribe.
StoreSubscribe(chat_id, args) ==
    LET res == subscribe(st_subscription, chat_id, args)
    IN /\ st_subscription' = res.table
       /\ st_last' = Some([op |-> "subscribe", chat_id |-> chat_id,
                           arg |-> args.subreddit, ok |-> res.ok, met |-> FALSE,
                           had |-> RowNames(st_subscription, chat_id)])
       /\ fn_in' = Some(args)
       /\ UNCHANGED <<program_vars, cache_vars, pipeline, fn_out, st_post>>

StoreUnsubscribe(chat_id, subreddit) ==
    LET res == unsubscribe(st_subscription, chat_id, subreddit)
    IN /\ st_subscription' = res.table
       /\ st_last' = Some([op |-> "unsubscribe", chat_id |-> chat_id,
                           arg |-> subreddit, ok |-> TRUE, met |-> res.deleted,
                           had |-> RowNames(st_subscription, chat_id)])
       /\ fn_in' = None
       /\ UNCHANGED <<program_vars, cache_vars, pipeline, fn_out, st_post>>

StoreMarkPostSeen(chat_id, post) ==
    LET res == mark_post_seen(st_post, chat_id, post)
    IN /\ st_post' = res.table
       /\ st_last' = Some([op |-> "mark_post_seen", chat_id |-> chat_id,
                           arg |-> post.id, ok |-> res.ok,
                           met |-> is_post_seen(st_post, chat_id, post),
                           had |-> RowNames(st_subscription, chat_id)])
       /\ fn_in' = None
       /\ UNCHANGED <<program_vars, cache_vars, pipeline, fn_out, st_subscription>>

StoreNext ==
    \/ \E c \in Chats, a \in StoreArgs : StoreSubscribe(c, a)
    \/ \E c \in Chats, x \in StorePatterns : StoreUnsubscribe(c, x)
    \/ \E c \in Chats, q \in StorePosts : StoreMarkPostSeen(c, q)

StoreSpec == StoreInit /\ [][StoreNext]_vars

(***************************************************************************)
(* The fetch parameters alone (src/src/main.rs:346-354): a subscription    *)
(* row and a configuration, and the values check_new_posts_for_subscription *)
(* computes from them before it calls get_subreddit_top_posts.             *)
(***************************************************************************)
ParamConfigs ==
    [skip_initial_send : {TRUE},
     default_limit : {None, Some(3)},
     default_time : {None, Some("month")},
     default_filter : {None, Some("video")}]

ParamSubscriptions ==
    [chat_id : {1}, subreddit : { <<"A", "w">> },
     limit : {None, Some(2), Some(5)},
     time : {None, Some("week"), Some("hour")},
     filter : {None, Some("image")}]

ParamInit ==
    /\ config \in ParamConfigs
    /\ ProgramInit
    /\ CacheIdle
    /\ fn_in \in ParamSubscriptions
    /\ fn_out = None
    /\ st_post = {}
    /\ st_subscription = <<>>
    /\ st_last = None
    /\ pipeline = PipelineIdle

\* let limit = ..; let time = ..; let filter = ..;
PrepareFetch ==
    /\ fn_out = None
    /\ fn_out' = Some([limit |-> effective_limit(fn_in),
                       time |-> effective_time(fn_in),
                       filter |-> effective_filter(fn_in)])
    /\ UNCHANGED <<program_vars, cache_vars, pipeline, fn_in, st_post, st_subscription, st_last>>

ParamSpec == ParamInit /\ [][PrepareFetch]_vars

(***************************************************************************)
(* The dispatcher alone (src/src/main.rs:272-285): the post the match of   *)
(* handle_new_post looks at, of any type the classifier can produce, and   *)
(* the answers of the downloader and of the messaging platform.            *)
(***************************************************************************)
DispatchPosts ==
    { [deserialize(h) EXCEPT !.has_gallery_data = g] :
        h \in ClassifierInputs, g \in BOOLEAN }

DispatchInputs ==
    UNION { [post : {p}, env : [refetch : {"ok"},
                                download : DownloadOutcomes(p.post_type),
                                upload : {"ok", "err"}]] : p \in DispatchPosts }

DispatchInit ==
    /\ config = DefaultConfig
    /\ ProgramInit
    /\ CacheIdle
    /\ fn_in \in DispatchInputs
    /\ fn_out = None
    /\ st_post = {}
    /\ st_subscription = <<>>
    /\ st_last = None
    /\ pipeline = PipelineIdle

\* match post.post_type { .. }
Dispatch ==
    /\ fn_out = None
    /\ fn_out' = Some(dispatch(fn_in.post, fn_in.env))
    /\ UNCHANGED <<program_vars, cache_vars, pipeline, fn_in, st_post, st_subscription, st_last>>

DispatchSpec == DispatchInit /\ [][Dispatch]_vars

(***************************************************************************)
(* The bot commands alone (src/src/bot.rs:82-190): handle_command on the   *)
(* subscription table, with the reply it sends.  fn_in is the command      *)
(* being handled, fn_out the reply, st_subscription the table.             *)
(***************************************************************************)
\* The arguments of /sub: the name as typed, in either case or of no
\* subreddit, with or without options
CmdSubArgs ==
    [subreddit : { <<"a", "w">>, <<"A", "W">>, <<"a", "_">>, <<"z", "z">> },
     limit : {None, Some(2)},
     time : {None},
     filter : {None}]

CmdUnsubInputs == UnsubInputs \cup { <<"A", "W">>, <<"z", "z">> }

CommandInit ==
    /\ config = DefaultConfig
    /\ ProgramInit
    /\ CacheIdle
    /\ fn_in = None
    /\ fn_out = None
    /\ st_post = {}
    /\ st_subscription = <<>>
    /\ st_last = None
    /\ pipeline = PipelineIdle

HandleSub(chat_id, args) ==
    \E about \in AboutAnswers(args.subreddit) :
        LET res == handle_sub(st_subscription, chat_id, args, about)
        IN /\ st_subscription' = res.table
           /\ fn_in' = Some([cmd |-> "sub", chat_id |-> chat_id,
                             subreddit |-> args.subreddit, args |-> Some(args),
                             about |-> Some(about),
                             had |-> RowNames(st_subscription, chat_id)])
           /\ fn_out' = Some(res.reply)
           /\ UNCHANGED <<program_vars, cache_vars, pipeline, st_post, st_last>>

HandleUnsub(chat_id, input) ==
    LET res == handle_unsub(st_subscription, chat_id, input)
    IN /\ st_subscription' = res.table
       /\ fn_in' = Some([cmd |-> "unsub", chat_id |-> chat_id,
                         subreddit |-> input, args |-> None, about |-> None,
                         had |-> RowNames(st_subscription, chat_id)])
       /\ fn_out' = Some(res.reply)
       /\ UNCHANGED <<program_vars, cache_vars, pipeline, st_post, st_last>>

CommandNext ==
    \/ \E c \in Chats, a \in CmdSubArgs : HandleSub(c, a)
    \/ \E c \in Chats, i \in CmdUnsubInputs : HandleUnsub(c, i)

CommandSpec == CommandInit /\ [][CommandNext]_vars

(***************************************************************************)
(* The delivery pipelines step by step (src/src/main.rs:114-253,           *)
(* src/src/download.rs, src/src/ytdlp.rs), with the temporary directories  *)
(* they own.  fn_in is the post, fn_out what the pipeline returned.        *)
(*   pipeline.pc        "idle", "enter", "request", "tmpdir", "fetch",     *)
(*                      "upload", "returned" or "panicked"                 *)
(*   pipeline.pending   gallery: keys of media_metadata not yet downloaded *)
(*   pipeline.current   gallery: the key being downloaded                  *)
(*   pipeline.held      gallery: keys of gallery_files_map                 *)
(*   pipeline.tmp_dirs  the temporary directories that exist on disk       *)
(*   pipeline.created   how many were created so far                       *)
(* A TempDir value deletes its directory when it is dropped; a value is    *)
(* dropped when its owner goes out of scope, by return or by unwinding.    *)
(***************************************************************************)
MediaIds == 1..MaxItems

\* A video post, an image post, and the gallery posts: gallery_data.items is
\* the declared order, media_metadata the media that have a URL
PipelinePosts ==
    [post_type : {"video", "image"}, has_gallery_data : {FALSE},
     items : { <<>> }, media_metadata : { {} }]
    \cup [post_type : {"gallery"}, has_gallery_data : {FALSE},
          items : { <<>> }, media_metadata : { {} }]
    \cup [post_type : {"gallery"}, has_gallery_data : {TRUE},
          items : SeqsUpTo(MediaIds, MaxItems),
          media_metadata : SUBSET MediaIds]

PipelineInit ==
    /\ config = DefaultConfig
    /\ ProgramInit
    /\ CacheIdle
    /\ fn_in \in PipelinePosts
    /\ fn_out = None
    /\ st_post = {}
    /\ st_subscription = <<>>
    /\ st_last = None
    /\ pipeline = [PipelineIdle EXCEPT !.pc = "enter"]

\* Variant: every photo carries the caption
RECURSIVE media_group_all_captioned(_, _, _)
media_group_all_captioned(items, files, first) ==
    IF items = <<>> THEN <<>>
    ELSE IF Head(items) \in files
         THEN << [media_id |-> Head(items), caption |-> TRUE] >>
              \o media_group_all_captioned(Tail(items), files, FALSE)
         ELSE media_group_all_captioned(Tail(items), files, first)

\* The loop over gallery_data_items (main.rs:226-247): an item whose file
\* is in the map becomes a photo, the first such photo takes the caption,
\* an item without a file is logged and skipped
RECURSIVE media_group(_, _, _)
media_group(items, files, first) ==
    IF items = <<>> THEN <<>>
    ELSE IF Head(items) \in files
         THEN << [media_id |-> Head(items), caption |-> first] >>
              \o media_group(Tail(items), files, FALSE)
         ELSE media_group(Tail(items), files, first)

UploadCall(post_type) ==
    CASE post_type = "video" -> "send_video"
      [] post_type = "image" -> "send_photo"
      [] post_type = "gallery" -> "send_media_group"

\* The pipeline returns: its locals are dropped
Returned(result, call, album) ==
    /\ pipeline' = [pipeline EXCEPT !.pc = "returned", !.tmp_dirs = {},
                                    !.held = {}, !.pending = {}]
    /\ fn_out' = Some([result |-> result, call |-> call, album |-> album])

\* The pipeline panics: the stack unwinds and its locals are dropped
Unwound ==
    /\ pipeline' = [pipeline EXCEPT !.pc = "panicked", !.tmp_dirs = {},
                                    !.held = {}, !.pending = {}]
    /\ fn_out' = Some([result |-> "panic", call |-> "none", album |-> <<>>])

\* handle_new_video_post, handle_new_image_post, handle_new_gallery_post are
\* entered; the gallery pipeline reads gallery_data and media_metadata with
\* expect()
PipelineEnter ==
    /\ pipeline.pc = "enter"
    /\ CASE fn_in.post_type = "video" ->
               pipeline' = [pipeline EXCEPT !.pc = "tmpdir"] /\ UNCHANGED fn_out
         [] fn_in.post_type = "image" ->
               pipeline' = [pipeline EXCEPT !.pc = "request"] /\ UNCHANGED fn_out
         [] fn_in.post_type = "gallery" /\ ~fn_in.has_gallery_data -> Unwound
         [] fn_in.post_type = "gallery" /\ fn_in.has_gallery_data ->
               /\ pipeline' = [pipeline EXCEPT
                       !.pc = IF fn_in.media_metadata = {} THEN "upload"
                              ELSE "request",
                       !.pending = fn_in.media_metadata]
               /\ UNCHANGED fn_out
    /\ UNCHANGED <<program_vars, cache_vars, fn_in, st_post, st_subscription, st_last>>

\* download_url_to_tmp: reqwest::get(url).await? (download.rs:16).  The
\* gallery takes the media in the iteration order of a HashMap.
Request ==
    /\ pipeline.pc = "request"
    /\ \E id \in (IF fn_in.post_type = "gallery" THEN pipeline.pending ELSE {0}),
          ok \in BOOLEAN :
          IF ok
          THEN /\ pipeline' = [pipeline EXCEPT !.pc = "tmpdir", !.current = id]
               /\ UNCHANGED fn_out
          ELSE Returned("err", "none", <<>>)
    /\ UNCHANGED <<program_vars, cache_vars, fn_in, st_post, st_subscription, st_last>>

\* TempDir::new("tgreddit")? (download.rs:17, ytdlp.rs:31)
TempDirNew ==
    /\ pipeline.pc = "tmpdir"
    /\ \E ok \in BOOLEAN :
          IF ok
          THEN /\ pipeline' = [pipeline EXCEPT
                       !.pc = "fetch",
                       !.tmp_dirs = @ \cup {pipeline.created + 1},
                       !.created = @ + 1]
               /\ UNCHANGED fn_out
          ELSE Returned("err", "none", <<>>)
    /\ UNCHANGED <<program_vars, cache_vars, fn_in, st_post, st_subscription, st_last>>

\* Variant: a failed download of a gallery leaves the directories of the
\* media downloaded before it
Fetch_keeping_earlier ==
    /\ pipeline.pc = "fetch"
    /\ \E outcome \in DownloadOutcomes(fn_in.post_type) :
          CASE outcome = "ok" /\ fn_in.post_type # "gallery" ->
                  pipeline' = [pipeline EXCEPT !.pc = "upload"] /\ UNCHANGED fn_out
            [] outcome = "ok" /\ fn_in.post_type = "gallery" ->
                  /\ pipeline' = [pipeline EXCEPT
                          !.pc = IF pipeline.pending = {pipeline.current}
                                 THEN "upload" ELSE "request",
                          !.pending = @ \ {pipeline.current},
                          !.held = @ \cup {pipeline.current}]
                  /\ UNCHANGED fn_out
            [] outcome = "err" ->
                  /\ pipeline' = [pipeline EXCEPT
                          !.pc = "returned",
                          !.tmp_dirs = @ \ {pipeline.created}]
                  /\ fn_out' = Some([result |-> "err", call |-> "none",
                                     album |-> <<>>])
            [] outcome = "panic" -> Unwound
    /\ UNCHANGED <<program_vars, cache_vars, fn_in, st_post, st_subscription, st_last>>

\* The rest of the download: the file is written into the directory
\* (download.rs:18-32), or yt-dlp runs and its file is looked up
\* (ytdlp.rs:32-69).  On success the directory goes to the caller, for a
\* gallery into gallery_files_map; an Err or a panic drops it, and
\* download_gallery's "?" drops the map with it.
Fetch ==
    /\ pipeline.pc = "fetch"
    /\ \E outcome \in DownloadOutcomes(fn_in.post_type) :
          CASE outcome = "ok" /\ fn_in.post_type # "gallery" ->
                  pipeline' = [pipeline EXCEPT !.pc = "upload"] /\ UNCHANGED fn_out
            [] outcome = "ok" /\ fn_in.post_type = "gallery" ->
                  /\ pipeline' = [pipeline EXCEPT
                          !.pc = IF pipeline.pending = {pipeline.current}
                                 THEN "upload" ELSE "request",
                          !.pending = @ \ {pipeline.current},
                          !.held = @ \cup {pipeline.current}]
                  /\ UNCHANGED fn_out
            [] outcome = "err" -> Returned("err", "none", <<>>)
            [] outcome = "panic" -> Unwound
    /\ UNCHANGED <<program_vars, cache_vars, fn_in, st_post, st_subscription, st_last>>

\* send_video / send_photo / send_media_group, awaited with "?"; the
\* pipeline returns either way
SendMedia ==
    /\ pipeline.pc = "upload"
    /\ \E result \in {"ok", "err"} :
          Returned(result, UploadCall(fn_in.post_type),
                   IF fn_in.post_type = "gallery"
                   THEN media_group(fn_in.items, pipeline.held, TRUE)
                   ELSE <<>>)
    /\ UNCHANGED <<program_vars, cache_vars, fn_in, st_post, st_subscription, st_last>>

PipelineNext ==
    \/ PipelineEnter
    \/ Request
    \/ TempDirNew
    \/ Fetch
    \/ SendMedia

PipelineSpec == PipelineInit /\ [][PipelineNext]_vars

(***************************************************************************)
(* handle_new_post alone (src/src/main.rs:255-286): the post of a listing, *)
(* the post get_link would answer for its id, and the answers of the       *)
(* collaborators.                                                          *)
(***************************************************************************)
\* Posts with and without post_hint, of the types the classifier gives them
HandlePosts ==
    { deserialize(h) : h \in
        [id : {"p"}, subreddit : { <<"A", "w">> },
         is_video : BOOLEAN,
         post_hint : {None, Some("image"), Some("link")},
         is_self : BOOLEAN,
         is_gallery : {None},
         url : {PlainUrl},
         crosspost_parent_list : {None},
         has_gallery_data : {FALSE}] }

HandleInputs ==
    UNION { [listed : {l}, refetched : {r}, env : Envs(l, r)] :
              l \in HandlePosts, r \in HandlePosts }

HandleInit ==
    /\ config = DefaultConfig
    /\ ProgramInit
    /\ CacheIdle
    /\ fn_in \in HandleInputs
    /\ fn_out = None
    /\ st_post = {}
    /\ st_subscription = <<>>
    /\ st_last = None
    /\ pipeline = PipelineIdle

Handle ==
    /\ fn_out = None
    /\ fn_out' = Some(handle_new_post(fn_in.listed, fn_in.refetched, fn_in.env))
    /\ UNCHANGED <<program_vars, cache_vars, pipeline, fn_in, st_post, st_subscription, st_last>>

HandleSpec == HandleInit /\ [][Handle]_vars

(***************************************************************************)
(* The Get command alone (src/src/bot.rs:140-177) on a store that holds    *)
(* seen-post records and subscriptions.  fn_in is the command with what    *)
(* get_subreddit_top_posts answered, fn_out what the handler did.          *)
(***************************************************************************)
\* the post of the listings with the id
Listed(id) == CHOOSE l \in UNION { Listing(s) : s \in Subreddits } : l.id = id

\* what the collaborators may answer when handle_new_post is given the post
AnswersFor(l) ==
    { [refetched |-> r, env |-> e] :
         r \in IF l.post_hint = None THEN GetLinkResults(l.id) ELSE {l},
         e \in Envs(l, l) }

\* what the collaborators answer for each post handle_new_post is given;
\* the answers for a post that is not in asked are never asked for
RECURSIVE GetAnswers(_, _)
GetAnswers(ids, asked) ==
    IF ids = {} THEN { <<>> }
    ELSE LET id == CHOOSE x \in ids : TRUE
             choices == IF id \in asked THEN AnswersFor(Listed(id))
                        ELSE { CHOOSE c \in AnswersFor(Listed(id)) : TRUE }
         IN { (id :> c) @@ f : c \in choices, f \in GetAnswers(ids \ {id}, asked) }

\* the for loop of Command::Get: handle_new_post for each post in turn, an
\* Err logged; a panic of handle_new_post ends the handler
RECURSIVE get_calls(_, _)
get_calls(todo, answers) ==
    IF todo = <<>> THEN <<>>
    ELSE LET post == Head(todo)
             a == answers[post.id]
             out == handle_new_post(post, a.refetched, a.env)
             call == [post_id |-> post.id, result |-> out.result]
         IN IF out.result = "panic" THEN <<call>>
            ELSE <<call>> \o get_calls(Tail(todo), answers)

\* what handle_command does for Command::Get(args) in chat chat_id
\*   fetched  None when get_subreddit_top_posts answered Err, else Some(posts)
\*   calls    the calls of handle_new_post, in order, each with its result
\*   reply    the text sent by the handler itself, "none" when it sent none
GetOutcome(post_tbl, sub_tbl, calls, reply) ==
    [post_table |-> post_tbl, subscription_table |-> sub_tbl,
     calls |-> calls, reply |-> reply]

\* Variant: Get goes through check_post_newness as the scheduler does
handle_get_as_poll(post_tbl, sub_tbl, chat_id, args, fetched, answers) ==
    IF fetched = None
    THEN GetOutcome(post_tbl, sub_tbl, <<>>, "Something went wrong")
    ELSE LET Wanted(p) == /\ ~filter_rejects(effective_filter(args), p)
                          /\ ~is_post_seen(post_tbl, chat_id, p)
             wanted == SelectSeq(fetched[1], Wanted)
             calls == get_calls(wanted, answers)
             marked == { [post_id |-> calls[i].post_id, chat_id |-> chat_id,
                          subreddit |-> args.subreddit] : i \in 1..Len(calls) }
         IN IF wanted = <<>>
            THEN GetOutcome(post_tbl, sub_tbl, <<>>, "No posts found")
            ELSE GetOutcome(post_tbl \cup marked, sub_tbl, calls, "none")

handle_get(post_tbl, sub_tbl, chat_id, args, fetched, answers) ==
    IF fetched = None
    THEN GetOutcome(post_tbl, sub_tbl, <<>>, "Something went wrong")
    ELSE LET Wanted(p) == ~filter_rejects(effective_filter(args), p)
             wanted == SelectSeq(fetched[1], Wanted)
         IN IF wanted = <<>>
            THEN GetOutcome(post_tbl, sub_tbl, <<>>, "No posts found")
            ELSE GetOutcome(post_tbl, sub_tbl, get_calls(wanted, answers), "none")

GetArgs ==
    [subreddit : { <<"A", "w">>, <<"z", "z">> },
     limit : {None, Some(2)},
     time : {None},
     filter : {None, Some("video")}]

\* the seen-post records a store may hold when the command arrives
GetPostTables ==
    { {},
      { [post_id |-> "p2", chat_id |-> 1, subreddit |-> <<"A", "w">>] },
      { [post_id |-> "p2", chat_id |-> 1, subreddit |-> <<"A", "w">>],
        [post_id |-> "p3", chat_id |-> 2, subreddit |-> <<"A", "w">>] } }

GetInit ==
    /\ config = DefaultConfig
    /\ ProgramInit
    /\ CacheIdle
    /\ fn_in = None
    /\ fn_out = None
    /\ st_post \in GetPostTables
    /\ st_subscription \in { <<>>, StoredSubscriptions }
    /\ st_last = None
    /\ pipeline = PipelineIdle

HandleGet(chat_id, args) ==
    \E fetched \in {None} \cup
          { Some(l) : l \in TopPostsResults(args.subreddit, effective_limit(args)) } :
       \E answers \in GetAnswers(PostIds,
             IF fetched = None THEN {}
             ELSE { fetched[1][i].id : i \in 1..Len(fetched[1]) }) :
          LET out == handle_get(st_post, st_subscription, chat_id, args,
                                fetched, answers)
          IN /\ st_post' = out.post_table
             /\ st_subscription' = out.subscription_table
             /\ fn_in' = Some([chat_id |-> chat_id, args |-> args,
                               fetched |-> fetched])
             /\ fn_out' = Some([calls |-> out.calls, reply |-> out.reply])
             /\ UNCHANGED <<program_vars, cache_vars, pipeline, st_last>>

GetNext == \E c \in Chats, a \in GetArgs : HandleGet(c, a)

GetSpec == GetInit /\ [][GetNext]_vars

(***************************************************************************)
(* The handler tree of the bot alone (src/src/bot.rs:42-60, 83-190): an    *)
(* update is a message; the branch filters on its sender, parses a command *)
(* and ends in handle_command; a message the branch does not take goes to  *)
(* the default handler, which logs it.  fn_in is the message, fn_out what  *)
(* the handler did.                                                        *)
(***************************************************************************)
UserIds == {11, 12}

UpdateConfigs ==
    { [skip_initial_send |-> TRUE, default_limit |-> None, default_time |-> None,
       default_filter |-> None, authorized_user_ids |-> ids] :
         ids \in { {}, {11} } }

\* a parsed command: Sub and Get carry SubscriptionArgs (args), Unsub
\* carries a String (input)
ParsedCommand(name, args, input) == [name |-> name, args |-> args, input |-> input]

NoArgs == [subreddit |-> <<>>, limit |-> None, time |-> None, filter |-> None]

\* command is None for a text that filter_command does not parse
Messages ==
    [from : {None} \cup { Some(u) : u \in UserIds },
     chat_id : Chats,
     command : {None} \cup
         { Some(ParsedCommand("sub", a, <<>>)) :
              a \in { x \in CmdSubArgs :
                         x.limit = None /\ x.subreddit \in { <<"a", "w">>, <<"a", "_">> } } } \cup
         { Some(ParsedCommand("unsub", NoArgs, i)) : i \in { <<"a", "w">>, <<"%">> } } \cup
         { Some(ParsedCommand("get",
                 [subreddit |-> <<"A", "w">>, limit |-> None,
                  time |-> None, filter |-> None], <<>>)) }]

\* what a handler did
\*   endpoint  "handle_command" or "default_handler"
\*   opened    db::Database::open was called
\*   source    the content-source functions that were called
\*   calls     the calls of handle_new_post
\*   reply     the text sent to the chat, "none" when none was sent
Handled(post_tbl, sub_tbl, endpoint, opened, source, calls, reply) ==
    [post_table |-> post_tbl, subscription_table |-> sub_tbl,
     endpoint |-> endpoint, opened |-> opened, source |-> source,
     calls |-> calls, reply |-> reply]

\* world is what the content source and the collaborators answer:
\* world.about to get_subreddit_about, world.fetched to
\* get_subreddit_top_posts, world.answers to each handle_new_post
handle_command(post_tbl, sub_tbl, message, command, world) ==
    CASE command.name = "sub" ->
            LET r == handle_sub(sub_tbl, message.chat_id, command.args, world.about)
            IN Handled(post_tbl, r.table, "handle_command", TRUE,
                       {"get_subreddit_about"}, <<>>, r.reply)
      [] command.name = "unsub" ->
            LET r == handle_unsub(sub_tbl, message.chat_id, command.input)
            IN Handled(post_tbl, r.table, "handle_command", TRUE, {}, <<>>, r.reply)
      [] command.name = "get" ->
            LET r == handle_get(post_tbl, sub_tbl, message.chat_id, command.args,
                                world.fetched, world.answers)
            IN Handled(r.post_table, r.subscription_table, "handle_command",
                       FALSE, {"get_subreddit_top_posts"}, r.calls, r.reply)

\* Variant: every message that has a sender passes
authorized_any_sender(message, conf) == message.from # None

\* msg.from().map(|user| authorized_user_ids.contains(&user.id.0))
\*     .unwrap_or_default()
authorized(message, conf) ==
    IF message.from = None THEN FALSE
    ELSE message.from[1] \in conf.authorized_user_ids

\* Update::filter_message().branch(filter(..).filter_command().endpoint(..))
\* with the default handler of the dispatcher
handler(post_tbl, sub_tbl, conf, message, world) ==
    IF authorized(message, conf) /\ message.command # None
    THEN handle_command(post_tbl, sub_tbl, message, message.command[1], world)
    ELSE Handled(post_tbl, sub_tbl, "default_handler", FALSE, {}, <<>>, "none")

\* the answers the world may give to the command of the message
Worlds(message) ==
    LET name == IF message.command = None THEN "none" ELSE message.command[1].name
        args == message.command[1].args
        fetched == IF name = "get"
                   THEN {None} \cup
                        { Some(l) : l \in TopPostsResults(args.subreddit,
                                                          effective_limit(args)) }
                   ELSE {None}
    IN UNION {
         { [about |-> a, fetched |-> f, answers |-> w] :
              a \in IF name = "sub" THEN AboutAnswers(args.subreddit)
                    ELSE { [status |-> "error", display_name |-> <<>>] },
              w \in IF f = None THEN GetAnswers(PostIds, {})
                    ELSE GetAnswers(PostIds,
                            { f[1][i].id : i \in 1..Len(f[1]) }) } :
         f \in fetched }

UpdateInit ==
    /\ config \in UpdateConfigs
    /\ ProgramInit
    /\ CacheIdle
    /\ fn_in = None
    /\ fn_out = None
    /\ st_post = {}
    /\ st_subscription = <<>>
    /\ st_last = None
    /\ pipeline = PipelineIdle

Update(message) ==
    \E world \in Worlds(message) :
       LET out == handler(st_post, st_subscription, config, message, world)
       IN /\ st_post' = out.post_table
          /\ st_subscription' = out.subscription_table
          /\ fn_in' = Some(message)
          /\ fn_out' = Some([endpoint |-> out.endpoint, opened |-> out.opened,
                             source |-> out.source, calls |-> out.calls,
                             reply |-> out.reply])
          /\ UNCHANGED <<program_vars, cache_vars, pipeline, st_last>>

UpdateNext == \E m \in Messages : Update(m)

UpdateSpec == UpdateInit /\ [][UpdateNext]_vars

(***************************************************************************)
(* SeenPostsCache alone (src/src/seen_posts_cache.rs): mark_seen,          *)
(* is_seen_post and is_uninitialized called in any order.                  *)
(*   chats_subreddits_posts        chat -> (subreddit -> LruCache)         *)
(*   chats_subreddits_initialized  chat -> set of subreddits               *)
(* An LruCache is the sequence of its keys, the most recently used first;  *)
(* its values are all true and are left out.                               *)
(***************************************************************************)
REMEMBERED_POSTS_COUNT == 10

\* the ids a caller passes: 1, 2, ... in the order of their first use
CachePostIds == 1..(MaxMarks + 1)

\* HashMap::get: Some(value) or None
Get(map, key) == IF key \in DOMAIN map THEN Some(map[key]) ELSE None

\* HashMap::insert
Insert(map, key, value) ==
    [k \in DOMAIN map \cup {key} |-> IF k = key THEN value ELSE map[k]]

\* LruCache::contains: no effect on the order
contains(lru, key) == \E i \in 1..Len(lru) : lru[i] = key

\* Variant: a key that is present keeps its place
put_keeping_place(lru, key, cap) ==
    IF contains(lru, key) THEN lru
    ELSE IF Len(lru) = cap THEN <<key>> \o SubSeq(lru, 1, cap - 1)
    ELSE <<key>> \o lru

\* LruCache::put on a cache of capacity cap: a key that is present becomes
\* the most recently used; a new key enters as the most recently used, and
\* on a full cache the least recently used entry leaves
put(lru, key, cap) ==
    LET Other(k) == k # key
    IN IF contains(lru, key) THEN <<key>> \o SelectSeq(lru, Other)
       ELSE IF Len(lru) = cap THEN <<key>> \o SubSeq(lru, 1, cap - 1)
       ELSE <<key>> \o lru

is_seen_post(cache, chat_id, subreddit, post_id) ==
    LET subreddits_posts == Get(cache.chats_subreddits_posts, chat_id)
    IN IF subreddits_posts = None THEN FALSE
       ELSE LET posts_of == Get(subreddits_posts[1], subreddit)
            IN IF posts_of = None THEN FALSE
               ELSE contains(posts_of[1], post_id)

\* Variant: one flag per chat
is_uninitialized_per_chat(cache, chat_id, subreddit) ==
    Get(cache.chats_subreddits_initialized, chat_id) = None

is_uninitialized(cache, chat_id, subreddit) ==
    LET subreddits == Get(cache.chats_subreddits_initialized, chat_id)
    IN IF subreddits = None THEN TRUE
       ELSE subreddit \notin subreddits[1]

mark_seen(cache, chat_id, subreddit, post_id) ==
    LET subreddits_posts ==
            UnwrapOr(Get(cache.chats_subreddits_posts, chat_id), <<>>)
        posts_of ==
            UnwrapOr(Get(subreddits_posts, subreddit), <<>>)
        subreddits ==
            UnwrapOr(Get(cache.chats_subreddits_initialized, chat_id), {})
    IN [chats_subreddits_posts |->
            Insert(cache.chats_subreddits_posts, chat_id,
                   Insert(subreddits_posts, subreddit,
                          put(posts_of, post_id, REMEMBERED_POSTS_COUNT))),
        chats_subreddits_initialized |->
            Insert(cache.chats_subreddits_initialized, chat_id,
                   subreddits \cup {subreddit})]

\* the pair that is marked until its LruCache is full and beyond; every
\* other pair is marked once at most
BusyPair == <<1, <<"A", "w">>>>

\* the calls of mark_seen that passed an id the pair was given before
RECURSIVE RemarksIn(_)
RemarksIn(pairs) ==
    IF pairs = {} THEN 0
    ELSE LET k == CHOOSE x \in pairs : TRUE
             ids == { g_marked[k][i] : i \in 1..Len(g_marked[k]) }
         IN Len(g_marked[k]) - Cardinality(ids) + RemarksIn(pairs \ {k})

\* the ids a call of mark_seen for the pair passes: the next new one, or
\* the one the pair holds that was marked the longest ago
IdsFor(chat_id, subreddit) ==
    LET log == g_marked[<<chat_id, subreddit>>]
        ids == { log[i] : i \in 1..Len(log) }
        held == { p \in ids :
                    is_seen_post(seen_posts_cache, chat_id, subreddit, p) }
        Last(p) == CHOOSE i \in 1..Len(log) :
                      log[i] = p /\ \A j \in (i + 1)..Len(log) : log[j] # p
    IN {Cardinality(ids) + 1} \cup
       { p \in held : \A q \in held : Last(p) <= Last(q) }

CacheInit ==
    /\ config = DefaultConfig
    /\ ProgramInit
    /\ seen_posts_cache = new
    /\ g_marked = [k \in Chats \X Subreddits |-> <<>>]
    /\ fn_in = None
    /\ fn_out = None
    /\ st_post = {}
    /\ st_subscription = <<>>
    /\ st_last = None
    /\ pipeline = PipelineIdle

MarkSeen(chat_id, subreddit, post_id) ==
    LET log == g_marked[<<chat_id, subreddit>>]
        again == \E i \in 1..Len(log) : log[i] = post_id
    IN /\ IF <<chat_id, subreddit>> = BusyPair
          THEN Len(log) < MaxMarks
          ELSE log = <<>>
       /\ again => RemarksIn(Chats \X Subreddits) < MaxRemarks
       /\ seen_posts_cache' =
              mark_seen(seen_posts_cache, chat_id, subreddit, post_id)
       /\ g_marked' = [g_marked EXCEPT ![<<chat_id, subreddit>>] =
                          Append(@, post_id)]
       /\ fn_in' = None
       /\ fn_out' = None
       /\ UNCHANGED <<program_vars, pipeline, st_post, st_subscription, st_last>>

\* fn_in is the method that answered last, fn_out its answer
IsSeenPost(chat_id, subreddit, post_id) ==
    /\ fn_in' = Some("is_seen_post")
    /\ fn_out' = Some(is_seen_post(seen_posts_cache, chat_id, subreddit, post_id))
    /\ UNCHANGED <<program_vars, cache_vars, pipeline, st_post, st_subscription, st_last>>

IsUninitialized(chat_id, subreddit) ==
    /\ fn_in' = Some("is_uninitialized")
    /\ fn_out' = Some(is_uninitialized(seen_posts_cache, chat_id, subreddit))
    /\ UNCHANGED <<program_vars, cache_vars, pipeline, st_post, st_subscription, st_last>>

CacheNext ==
    \/ \E c \in Chats, s \in Subreddits :
          \E p \in IdsFor(c, s) : MarkSeen(c, s, p)
    \/ \E c \in Chats, s \in Subreddits :
          \E p \in IdsFor(c, s) : IsSeenPost(c, s, p)
    \/ \E c \in Chats, s \in Subreddits : IsUninitialized(c, s)

CacheSpec == CacheInit /\ [][CacheNext]_vars

(***************************************************************************)
(* Properties                                                              *)
(***************************************************************************)
\* the poll of sub has examined every post of its listing
PollDone == pc = "post" /\ pi > Len(posts)

\* the post with this id has a seen record for the chat
Seen(chat_id, id) == is_post_seen(post_table, chat_id, [id |-> id])

C2_SeenForever ==
    [][\A c \in Chats, id \in PostIds :
          is_post_seen(post_table, c, [id |-> id])
              => is_post_seen(post_table', c, [id |-> id])]_vars

\* a post marked seen, then the chat unsubscribed and subscribed again, and
\* the next poll finds the post seen
C2_Witness ==
    /\ InPoll
    /\ g_prior = "renewed"
    /\ Len(g_poll) > 0
    /\ g_poll[Len(g_poll)].verdict = "seen"
    /\ Seen(sub.chat_id, g_poll[Len(g_poll)].id)

\* C3: a poll that starts with no seen record for (chat, subreddit) while
\* skip_initial_send is on makes no delivery call.
C3_FirstRunSilent ==
    (InPoll /\ is_new_subreddit /\ config.skip_initial_send)
        => \A i \in 1..Len(g_poll) :
              g_poll[i].verdict # "dispatch" /\ g_poll[i].call = "none"

\* such a poll is over and it held back a post
C3_Witness ==
    /\ PollDone
    /\ is_new_subreddit /\ config.skip_initial_send
    /\ \E i \in 1..Len(g_poll) : g_poll[i].verdict = "suppressed"

\* C4 as stated: with skip_initial_send on, the first poll of every row that
\* subscribe created delivers nothing, a row created again after an
\* unsubscribe included.
C4_FirstPollOfEveryRowSilent ==
    (InPoll /\ config.skip_initial_send /\ g_prior \in {"new", "renewed"})
        => \A i \in 1..Len(g_poll) : g_poll[i].verdict # "dispatch"

\* C4 amended: with skip_initial_send on, the first poll of the first row a
\* (chat, subreddit) pair ever had delivers nothing.
C4_FirstPollOfFirstRowSilent ==
    (InPoll /\ config.skip_initial_send /\ g_prior = "new")
        => \A i \in 1..Len(g_poll) :
              g_poll[i].verdict # "dispatch" /\ g_poll[i].call = "none"

\* the first poll of a first row is over and it held back a post
C4_Witness ==
    /\ PollDone
    /\ config.skip_initial_send /\ g_prior = "new"
    /\ \E i \in 1..Len(g_poll) : g_poll[i].verdict = "suppressed"

\* C5 as stated: when a first-run suppressed poll is over, every post of its
\* listing is seen for the chat.
C5_SuppressedPollMarksAll ==
    (PollDone /\ only_mark_seen)
        => \A i \in 1..Len(posts) : Seen(sub.chat_id, posts[i].id)

C7_MarkedWhateverTheDelivery ==
    \A i \in 1..Len(g_poll) :
        (/\ g_poll[i].verdict = "dispatch"
         /\ g_poll[i].result # "none"
         /\ g_poll[i].stage # "refetch")
            => /\ pc # "panicked"
               /\ \/ pc = "mark" /\ i = Len(g_poll)
                  \/ Seen(sub.chat_id, g_poll[i].id)

\* C8: a failed fetch delivers nothing, marks nothing and does not end the
\* cycle: the scheduler goes on to the next subscription, or sleeps when
\* there is none.
C8_FetchFailureIsolated ==
    [][(/\ pc = "fetch"
        /\ pc' # "post"
        /\ <<pc, si, subs>>' # <<pc, si, subs>>)
           => /\ post_table' = post_table
              /\ g_dispatched' = g_dispatched
              /\ alive' = alive
              /\ IF si < Len(subs)
                 THEN pc' = "fetch" /\ si' = si + 1 /\ subs' = subs
                 ELSE pc' = "sleep"]_vars

\* a fetch failed and the scheduler is at the fetch of the next subscription
C8_Witness ==
    /\ pc = "fetch"
    /\ g_fetch_failed
    /\ si >= 2
    /\ alive

\* C9 as stated: under a filter F every delivery is the delivery of a post
\* of type F.
C9_DeliveredAsFilterType ==
    \A i \in 1..Len(g_poll) :
        (effective_filter(sub) # None /\ g_poll[i].call # "none")
            => Some(g_poll[i].post_type) = effective_filter(sub)

\* C10 as stated: when a poll under a filter is over, every post of its
\* listing is seen for the chat, whether it matches the filter or not.
C10_FilteredPollMarksAll ==
    (PollDone /\ effective_filter(sub) # None)
        => \A i \in 1..Len(posts) : Seen(sub.chat_id, posts[i].id)

\* the first rule of the stated order that a payload matches
FirstMatchingRule(h) ==
    LET video ==
            \/ h.is_video
            \/ /\ h.crosspost_parent_list # None
               /\ \E i \in DOMAIN h.crosspost_parent_list[1] :
                     h.crosspost_parent_list[1][i] = "video"
            \/ h.url.host = Some("i.imgur.com") /\ h.url.gifv
            \/ h.url.host = Some("gfycat.com")
    IN CASE video -> "video"
         [] ~video /\ h.post_hint = Some("image") -> "image"
         [] ~video /\ h.post_hint \in {Some("link"), Some("rich:video")} -> "link"
         [] ~video /\ h.post_hint \notin {Some("image"), Some("link"), Some("rich:video")}
               /\ h.is_self -> "self_text"
         [] ~video /\ h.post_hint \notin {Some("image"), Some("link"), Some("rich:video")}
               /\ ~h.is_self /\ h.is_gallery = Some(TRUE) -> "gallery"
         [] OTHER -> "unknown"

\* C11: the post_type of a deserialized post is the result of the first
\* matching rule in the order Video, Image, Link, SelfText, Gallery, Unknown.
C11_FirstMatchWins ==
    fn_out # None => fn_out[1].post_type = FirstMatchingRule(fn_in)

\* a link to an i.imgur.com .gifv is classified Video although post_hint
\* says link
C11_Witness ==
    /\ fn_out # None
    /\ fn_in.post_hint = Some("link")
    /\ ~fn_in.is_video
    /\ fn_in.crosspost_parent_list = None
    /\ fn_in.url = [host |-> Some("i.imgur.com"), gifv |-> TRUE]
    /\ fn_out[1].post_type = "video"

\* C12: the subscription table never holds two rows for one
\* (chat_id, subreddit) pair.
C12_OneRowPerPair ==
    \A i, j \in 1..Len(st_subscription) :
        (/\ st_subscription[i].chat_id = st_subscription[j].chat_id
         /\ st_subscription[i].subreddit = st_subscription[j].subreddit) => i = j

\* subscribe was called for a pair that had a row: it failed and the pair
\* has its one row
C12_Witness ==
    /\ st_last # None
    /\ st_last[1].op = "subscribe"
    /\ ~st_last[1].ok
    /\ \E i \in 1..Len(st_subscription) :
          /\ st_subscription[i].chat_id = st_last[1].chat_id
          /\ st_subscription[i].subreddit = st_last[1].arg

\* C13 as stated: mark_post_seen for a post that is already seen for the chat
\* returns success and leaves one record for (post, chat).
C13_MarkIdempotent ==
    (st_last # None /\ st_last[1].op = "mark_post_seen" /\ st_last[1].met)
        => /\ st_last[1].ok
           /\ Cardinality({ r \in st_post : r.post_id = st_last[1].arg
                                          /\ r.chat_id = st_last[1].chat_id }) = 1

\* C14 as stated: once a signal has come while the scheduler is polling, the
\* scheduler does not go on to the next subscription of the cycle.
C14_StopsAtSubscriptionBoundary ==
    [][(g_sig_phase = "Polling" /\ Phase = "Polling")
          => ~(pc' = "fetch" /\ si' = si + 1)]_vars

\* C15: a signal that comes while the scheduler sleeps ends the loop without
\* another poll cycle.
C15_SignalWhileSleeping ==
    g_sig_phase = "Sleeping"
        => /\ Phase \in {"Sleeping", "Terminated"}
           /\ pc # "panicked"
           /\ subs = <<>>

\* the signal came during the sleep, there was a subscription to poll, and
\* the loop has ended
C15_Witness ==
    /\ g_sig_phase = "Sleeping"
    /\ pc = "terminated"
    /\ Len(subscription_table) > 0

\* C16: after a signal the scheduler loop ends, whatever its phase when the
\* signal comes, and once ended it does not poll again.
C16_TerminatesAfterSignal ==
    /\ shutdown ~> (Phase = "Terminated")
    /\ [][Phase = "Terminated" => Phase' = "Terminated"]_vars

\* the signal came in the middle of a cycle and the loop has ended
C16_Witness ==
    /\ g_sig_phase = "Polling"
    /\ pc = "terminated"
    /\ shutdown

\* a cycle over no subscription: check_new_posts returns at once
EmptyCycle ==
    /\ pc = "loop"
    /\ ~shutdown
    /\ get_all_subscriptions(subscription_table) = <<>>
    /\ pc' = "sleep"

\* the sleep begins when the cycle has left its last subscription
CycleDrained == si = Len(subs) /\ (pc = "fetch" \/ PollDone)

\* C17 as stated: the phases change only from Idle to Polling, Polling to
\* Sleeping, Sleeping to Polling, and Polling or Sleeping to Terminated; the
\* sleep begins only when the cycle has processed all of its subscriptions.
C17_PhaseTransitions ==
    [][Phase' # Phase
          => /\ \/ <<Phase, Phase'>> \in
                      { <<"Idle", "Polling">>, <<"Polling", "Sleeping">>,
                        <<"Sleeping", "Polling">>, <<"Polling", "Terminated">>,
                        <<"Sleeping", "Terminated">> }
                \/ EmptyCycle
             /\ (Phase = "Polling" /\ Phase' = "Sleeping") => CycleDrained]_vars

\* C17 amended: as stated, and from Idle to Terminated when the signal comes
\* before the first cycle.
C17_PhaseTransitionsWithIdleExit ==
    [][Phase' # Phase
          => /\ \/ <<Phase, Phase'>> \in
                      { <<"Idle", "Polling">>, <<"Polling", "Sleeping">>,
                        <<"Sleeping", "Polling">>, <<"Polling", "Terminated">>,
                        <<"Sleeping", "Terminated">> }
                \/ <<Phase, Phase'>> = <<"Idle", "Terminated">> /\ shutdown
                \/ EmptyCycle
             /\ (Phase = "Polling" /\ Phase' = "Sleeping") => CycleDrained]_vars

\* the scheduler sleeps after a cycle that polled a subscription already
\* polled in an earlier cycle
C17_Witness ==
    /\ pc = "sleep"
    /\ g_started
    /\ \E k \in Chats \X Subreddits : g_hist[k] = "polled"

\* C18: the posts of a listing are examined in its order, and when a post is
\* examined the delivery attempt and the seen mark of every post before it
\* are done.
C18_ListingOrder ==
    /\ Len(g_poll) <= Len(posts)
    /\ \A i \in 1..Len(g_poll) :
          /\ g_poll[i].id = posts[i].id
          /\ (i < Len(g_poll) /\ g_poll[i].verdict \in {"dispatch", "suppressed"})
                => Seen(sub.chat_id, posts[i].id)
          /\ (i < Len(g_poll) /\ g_poll[i].verdict = "dispatch")
                => g_poll[i].result \in {"ok", "err"}

\* two posts of one listing were delivered, the first is marked and the
\* second awaits its mark
C18_Witness ==
    /\ pc = "mark"
    /\ Len(g_poll) = 2
    /\ g_poll[1].verdict = "dispatch"
    /\ g_poll[2].verdict = "dispatch"
    /\ Seen(sub.chat_id, posts[1].id)
    /\ ~Seen(sub.chat_id, posts[2].id)

\* C19: the limit and the time period used in the fetch are the subscription's
\* own value when it has one, otherwise the configuration's default when it
\* has one, otherwise the hard-coded default: limit 1, time period day.
C19_EffectiveFetchParameters ==
    fn_out # None =>
        /\ fn_in.limit # None => fn_out[1].limit = fn_in.limit[1]
        /\ (fn_in.limit = None /\ config.default_limit # None) =>
               fn_out[1].limit = config.default_limit[1]
        /\ (fn_in.limit = None /\ config.default_limit = None) =>
               fn_out[1].limit = 1
        /\ fn_in.time # None => fn_out[1].time = fn_in.time[1]
        /\ (fn_in.time = None /\ config.default_time # None) =>
               fn_out[1].time = config.default_time[1]
        /\ (fn_in.time = None /\ config.default_time = None) =>
               fn_out[1].time = "day"

\* A row with its own limit and no time period, under a configuration that
\* has a default for both
C19_Witness ==
    /\ fn_out # None
    /\ fn_in.limit = Some(2) /\ config.default_limit = Some(3)
    /\ fn_out[1].limit = 2
    /\ fn_in.time = None /\ config.default_time = Some("month")
    /\ fn_out[1].time = "month"

\* The messaging-platform call each pipeline ends with
PipelineCall(post_type) ==
    CASE post_type = "image" -> "send_photo"
      [] post_type = "video" -> "send_video"
      [] post_type = "gallery" -> "send_media_group"
      [] post_type = "link" -> "send_message_preview"
      [] post_type = "self_text" -> "send_message_no_preview"
      [] post_type = "unknown" -> "send_message_preview"

\* C20: the dispatcher routes a post by its post_type to exactly one
\* pipeline: Image to the photo upload, Video to the downloader and the video
\* upload, Gallery to the album upload, Link to a text message with the link
\* preview enabled, SelfText to a text message with the preview disabled,
\* Unknown to the pipeline of Link.  The only call made is the pipeline's, it
\* is made whenever the pipeline's download step succeeds, and the text
\* pipelines have no download step.
C20_RoutedByPostType ==
    fn_out # None =>
        LET t == fn_in.post.post_type
            r == fn_out[1]
            downloaded == /\ fn_in.env.download = "ok"
                          /\ t = "gallery" => fn_in.post.has_gallery_data
        IN  /\ r.call \in {"none", PipelineCall(t)}
            /\ downloaded <=> r.call = PipelineCall(t)
            /\ t \in {"link", "self_text", "unknown"} => r.stage # "download"
            /\ (t = "video" /\ ~downloaded) => r.stage = "download"

\* An Unknown post went out as a text message with the link preview enabled
C20_Witness ==
    /\ fn_out # None
    /\ fn_in.post.post_type = "unknown"
    /\ fn_out[1].call = "send_message_preview"
    /\ fn_out[1].result = "ok"

\* A call of unsubscribe has just returned
Unsubscribed ==
    /\ st_last' # None
    /\ st_last'[1].op = "unsubscribe"
    /\ <<st_last, st_subscription>>' # <<st_last, st_subscription>>

\* C21: unsubscribe returns true exactly when the table lost a row; every row
\* of the chat whose name is the argument, upper and lower case taken as
\* equal, is deleted, so that a name subscribed and then unsubscribed is no
\* longer in the chat's list.
C21_UnsubscribeReportsDeletion ==
    [][Unsubscribed =>
          /\ st_last'[1].met <=> Len(st_subscription') < Len(st_subscription)
          /\ LET mine == get_subscriptions_for_chat(st_subscription',
                                                    st_last'[1].chat_id)
             IN \A i \in 1..Len(mine) :
                   Lower(mine[i].subreddit) # Lower(st_last'[1].arg)]_vars

\* unsubscribe(1, "aw") deleted the row the chat had for "Aw"
C21_Witness ==
    /\ st_last # None
    /\ st_last[1].op = "unsubscribe"
    /\ st_last[1].chat_id = 1
    /\ st_last[1].arg = <<"a", "w">>
    /\ st_last[1].had = << <<"A", "w">> >>
    /\ st_last[1].met
    /\ get_subscriptions_for_chat(st_subscription, 1) = <<>>

\* A Sub command has just been handled
SubHandled ==
    /\ fn_in' # None
    /\ fn_in'[1].cmd = "sub"
    /\ <<fn_in, fn_out, st_subscription>>' # <<fn_in, fn_out, st_subscription>>

\* C22: the Sub command changes the table only when the content source
\* answered that the subreddit exists, and then by one new row that carries
\* the display name of the answer and the options of the command; when the
\* source answers that there is no such subreddit, the reply is "No such
\* subreddit" and the table is unchanged.
C22_SubAfterConfirmation ==
    [][SubHandled =>
          LET c == fn_in'[1]
              about == c.about[1]
              args == c.args[1]
          IN /\ st_subscription' # st_subscription =>
                   /\ about.status = "ok"
                   /\ st_subscription' = Append(st_subscription,
                          [chat_id |-> c.chat_id,
                           subreddit |-> about.display_name,
                           limit |-> args.limit, time |-> args.time,
                           filter |-> args.filter])
             /\ about.status = "no_such" =>
                   /\ fn_out' = Some("No such subreddit")
                   /\ st_subscription' = st_subscription]_vars

\* "/sub aw" was answered with the display name "Aw", and the row is under
\* "Aw"
C22_Witness ==
    /\ fn_in # None /\ fn_in[1].cmd = "sub"
    /\ fn_in[1].subreddit = <<"a", "w">>
    /\ fn_in[1].had = <<>>
    /\ fn_out = Some("Subscribed to r/")
    /\ RowNames(st_subscription, fn_in[1].chat_id) = << <<"A", "w">> >>

\* "/sub zz" was answered with "No such subreddit"
C22_WitnessNoSuch ==
    /\ fn_in # None /\ fn_in[1].cmd = "sub"
    /\ fn_in[1].subreddit = <<"z", "z">>
    /\ fn_out = Some("No such subreddit")

\* C23: a Sub command for a subreddit the chat already has a row for fails:
\* the store rejects the insert, the chat is told that something went wrong,
\* and the table, the existing row with its limit, time period and filter
\* included, is as it was.
C23_ResubscribeRejected ==
    [][(/\ SubHandled
        /\ fn_in'[1].about[1].status = "ok"
        /\ \E i \in 1..Len(st_subscription) :
              /\ st_subscription[i].chat_id = fn_in'[1].chat_id
              /\ st_subscription[i].subreddit = fn_in'[1].about[1].display_name)
          => /\ fn_out' = Some("Something went wrong")
             /\ st_subscription' = st_subscription]_vars

\* Chat 1 has "Aw" without a limit and sent "/sub aw limit=2": the command
\* failed and the row has no limit
C23_Witness ==
    /\ fn_in # None /\ fn_in[1].cmd = "sub"
    /\ fn_in[1].chat_id = 1
    /\ fn_in[1].subreddit = <<"a", "w">>
    /\ fn_in[1].args[1].limit = Some(2)
    /\ fn_in[1].had = << <<"A", "w">> >>
    /\ fn_out = Some("Something went wrong")
    /\ \E i \in 1..Len(st_subscription) :
          /\ st_subscription[i].chat_id = 1
          /\ st_subscription[i].subreddit = <<"A", "w">>
          /\ st_subscription[i].limit = None

\* The elements of a sequence
Range(seq) == { seq[i] : i \in 1..Len(seq) }

\* C24: after subscribe(C, args) has succeeded, get_subscriptions_for_chat(C)
\* holds a subscription of C with the subreddit, limit, time period and
\* filter of args.  In every state get_subscriptions_for_chat(C) holds
\* subscriptions of chat C only, and get_all_subscriptions holds the
\* subscriptions of every chat and nothing else.
C24_SubscriptionsReadBack ==
    /\ (st_last # None /\ st_last[1].op = "subscribe" /\ st_last[1].ok) =>
          [chat_id |-> st_last[1].chat_id, subreddit |-> fn_in[1].subreddit,
           limit |-> fn_in[1].limit, time |-> fn_in[1].time,
           filter |-> fn_in[1].filter]
              \in Range(get_subscriptions_for_chat(st_subscription,
                                                   st_last[1].chat_id))
    /\ \A c \in Chats :
          \A r \in Range(get_subscriptions_for_chat(st_subscription, c)) :
              r.chat_id = c
    /\ Range(get_all_subscriptions(st_subscription)) =
          UNION { Range(get_subscriptions_for_chat(st_subscription, c)) :
                    c \in Chats }
    /\ Len(get_all_subscriptions(st_subscription)) =
          Len(get_subscriptions_for_chat(st_subscription, 1))
          + Len(get_subscriptions_for_chat(st_subscription, 2))

\* subscribe(1, "Aw" limit 2, week, video) succeeded while chat 2 has a row
\* of its own
C24_Witness ==
    /\ st_last # None /\ st_last[1].op = "subscribe" /\ st_last[1].ok
    /\ st_last[1].chat_id = 1
    /\ fn_in = Some([subreddit |-> <<"A", "w">>, limit |-> Some(2),
                     time |-> Some("week"), filter |-> Some("video")])
    /\ get_subscriptions_for_chat(st_subscription, 2) # <<>>
    /\ Len(get_subscriptions_for_chat(st_subscription, 1)) = 2

\* C25: when a delivery pipeline has returned, or has ended in a panic, no
\* temporary directory that it created exists, whatever the upload and the
\* downloads did.
C25_TempDirsDeleted ==
    pipeline.pc \in {"returned", "panicked"} => pipeline.tmp_dirs = {}

\* A gallery whose second download failed after the first had succeeded: two
\* directories were created and none is left
C25_Witness ==
    /\ fn_in.post_type = "gallery"
    /\ pipeline.pc = "returned"
    /\ fn_out = Some([result |-> "err", call |-> "none", album |-> <<>>])
    /\ pipeline.created = 2
    /\ pipeline.tmp_dirs = {}

\* C26: the album the gallery pipeline sends holds, in the order of
\* gallery_data.items, the items whose medium was downloaded, and when it
\* holds a photo the caption is on its first photo and on no other.
C26_AlbumInDeclaredOrder ==
    (fn_out # None /\ fn_out[1].call = "send_media_group") =>
        LET album == fn_out[1].album
            Downloaded(id) == id \in fn_in.media_metadata
            declared == SelectSeq(fn_in.items, Downloaded)
        IN /\ Len(album) = Len(declared)
           /\ \A i \in 1..Len(album) :
                 /\ album[i].media_id = declared[i]
                 /\ album[i].caption <=> i = 1

\* The items are declared as 2, 1 and both media were downloaded: the album
\* is 2 with the caption, then 1 without
C26_Witness ==
    /\ fn_in.items = <<2, 1>>
    /\ fn_in.media_metadata = {1, 2}
    /\ fn_out = Some([result |-> "ok", call |-> "send_media_group",
                      album |-> << [media_id |-> 2, caption |-> TRUE],
                                   [media_id |-> 1, caption |-> FALSE] >>])

\* C27 as stated: a second signal that comes while the scheduler is still in
\* the poll cycle the first signal found it in ends the process at once.
C27_SecondSignalExits ==
    [][(/\ signals >= 1
        /\ signals' = signals + 1
        /\ g_sig_phase = "Polling"
        /\ Phase = "Polling")
          => ~alive']_vars

\* C28: handle_new_post fetches a post without post_hint again and takes the
\* pipeline of the post_type of the re-fetched post, whatever the type of
\* the listed one; a post with post_hint is not fetched again and takes the
\* pipeline of its own post_type.
C28_PipelineOfRefetchedPost ==
    fn_out # None =>
        LET out == fn_out[1]
            routed == IF fn_in.listed.post_hint = None
                      THEN fn_in.refetched ELSE fn_in.listed
        IN /\ fn_in.listed.post_hint = None <=> out.get_link # "none"
           /\ out.get_link # "err" =>
                 /\ out.post_type = routed.post_type
                 /\ out.call \in {"none", PipelineCall(routed.post_type)}
                 /\ fn_in.env.download = "ok" =>
                        out.call = PipelineCall(routed.post_type)

\* A listed post without post_hint, classified as unknown, whose re-fetched
\* copy is an image: it went out as a photo
C28_Witness ==
    /\ fn_out # None
    /\ fn_in.listed.post_hint = None
    /\ fn_in.listed.post_type = "unknown"
    /\ fn_in.refetched.post_type = "image"
    /\ fn_out[1].get_link = "ok"
    /\ fn_out[1].call = "send_photo"

\* C29 as stated: when the re-fetch of a post without post_hint fails during
\* a poll, the scheduler task does not end: the failure is logged and the
\* cycle goes on.
C29_RefetchFailureCaught ==
    \A i \in 1..Len(g_poll) :
        g_poll[i].stage = "refetch" => pc # "panicked" /\ alive

\* C30 as stated: a cycle polls the subscriptions that get_all_subscriptions
\* returned when it began, each once and in that order, whatever commands
\* arrive meanwhile; it ends, and the loop sleeps, when the last of them has
\* been polled.
C30_CycleCoversSnapshot ==
    [][/\ (pc = "loop" /\ pc' # "loop" /\ pc' # "terminated") =>
             /\ subs' = get_all_subscriptions(subscription_table)
             /\ si' = 1
       /\ (Phase = "Polling" /\ Phase' = "Polling") =>
             /\ subs' = subs
             /\ si' \in {si, si + 1}
       /\ (Phase = "Polling" /\ Phase' # "Polling") =>
             /\ Phase' = "Sleeping"
             /\ si = Len(subs)]_vars

\* the index of the last call of mark_seen that passed post_id, 0 when none
LastMark(log, post_id) ==
    LET at == { i \in 1..Len(log) : log[i] = post_id }
    IN IF at = {} THEN 0 ELSE CHOOSE i \in at : \A j \in at : j <= i

\* the ids passed to mark_seen after the last call that passed post_id
MarkedSince(log, post_id) ==
    { log[i] : i \in (LastMark(log, post_id) + 1)..Len(log) }

\* the ids of the pair that is_seen_post answers true for
Held(cache, k) ==
    { p \in CachePostIds : is_seen_post(cache, k[1], k[2], p) }

\* C31: each (chat, subreddit) pair holds at most 10 post ids; a post id
\* marked seen is answered as seen for as long as fewer than 10 other
\* distinct ids were marked for the pair after it; a mark_seen of a new id on
\* a full set evicts one id, the least recently marked of the set; and
\* is_seen_post leaves the cache, the recency order included, as it was.
C31_LeastRecentlyMarkedEvicted ==
    [][/\ \A k \in Chats \X Subreddits :
            g_marked'[k] # g_marked[k] =>
               LET before == Held(seen_posts_cache, k)
                   after == Held(seen_posts_cache', k)
                   marked == g_marked'[k][Len(g_marked'[k])]
               IN /\ Cardinality(after) <= 10
                  /\ \A p \in CachePostIds :
                        (/\ LastMark(g_marked'[k], p) > 0
                         /\ Cardinality(MarkedSince(g_marked'[k], p)) < 10)
                           => p \in after
                  /\ (Cardinality(before) = 10 /\ marked \notin before)
                        => \E e \in before :
                              /\ after = (before \ {e}) \cup {marked}
                              /\ \A q \in before :
                                    LastMark(g_marked[k], e)
                                       <= LastMark(g_marked[k], q)
       /\ fn_in' = Some("is_seen_post")
             => seen_posts_cache' = seen_posts_cache]_vars

\* an id was evicted from a full set while an id first marked before it,
\* and marked again since, is still held
C31_Witness ==
    \E k \in Chats \X Subreddits :
       \E p, q \in CachePostIds :
          /\ q < p
          /\ LastMark(g_marked[k], p) > 0
          /\ ~is_seen_post(seen_posts_cache, k[1], k[2], p)
          /\ is_seen_post(seen_posts_cache, k[1], k[2], q)
          /\ Cardinality(Held(seen_posts_cache, k)) = 10

\* C32: is_uninitialized(c, s) is true as long as mark_seen was never
\* called for (c, s) and false ever after, whatever has been evicted since;
\* a mark_seen for (c, s) changes neither is_uninitialized nor is_seen_post
\* of any other (chat, subreddit) pair.
C32_InitializedByFirstMark ==
    [][\A k \in Chats \X Subreddits :
          /\ is_uninitialized(seen_posts_cache, k[1], k[2]) = (g_marked[k] = <<>>)
          /\ is_uninitialized(seen_posts_cache', k[1], k[2]) = (g_marked'[k] = <<>>)
          /\ g_marked'[k] # g_marked[k] =>
                \A o \in (Chats \X Subreddits) \ {k} :
                   /\ is_uninitialized(seen_posts_cache', o[1], o[2])
                         = is_uninitialized(seen_posts_cache, o[1], o[2])
                   /\ \A p \in CachePostIds :
                         is_seen_post(seen_posts_cache', o[1], o[2], p)
                            = is_seen_post(seen_posts_cache, o[1], o[2], p)]_vars

\* the first id marked for a pair has been evicted and the pair is still
\* initialized; the chat's other subreddit was never marked; the other chat
\* holds an id of its own for the same subreddit
C32_Witness ==
    /\ LastMark(g_marked[BusyPair], 1) > 0
    /\ ~is_seen_post(seen_posts_cache, BusyPair[1], BusyPair[2], 1)
    /\ ~is_uninitialized(seen_posts_cache, BusyPair[1], BusyPair[2])
    /\ is_uninitialized(seen_posts_cache, BusyPair[1], <<"a", "_">>)
    /\ is_seen_post(seen_posts_cache, 2, BusyPair[2], 1)
    /\ is_uninitialized(seen_posts_cache, 2, <<"a", "_">>)

\* the chat has a row for the subreddit
HasRow(sub_tbl, chat_id, subreddit) ==
    \E i \in 1..Len(sub_tbl) :
       sub_tbl[i].chat_id = chat_id /\ sub_tbl[i].subreddit = subreddit

\* the step is a call of handle_new_post by the scheduler
Delivers == pc = "handle" /\ pc' # "handle"

\* C33 as stated: the scheduler delivers a post of S to C, and writes a
\* seen-post record for (C, S), only while C has a subscription row for S:
\* not after an Unsub of (C, S) has deleted it, the cycle in progress
\* included.
C33_NothingAfterUnsub ==
    [][/\ Delivers => HasRow(subscription_table, sub.chat_id, sub.subreddit)
       /\ \A r \in post_table' \ post_table :
             HasRow(subscription_table, r.chat_id, r.subreddit)]_vars

\* C33 amended: a cycle works on the rows the subscription table held when
\* the cycle began: a pair whose row an Unsub had deleted by then is not
\* among them, and every delivery and every seen-post record of the cycle is
\* for the row being polled, one of those rows.
C33_NothingInCyclesBegunAfterUnsub ==
    [][/\ (pc = "loop" /\ pc' # "loop" /\ pc' # "terminated") =>
             /\ subs' = subscription_table
             /\ \A k \in Chats \X Subreddits :
                   ~HasRow(subscription_table, k[1], k[2])
                      => ~HasRow(subs', k[1], k[2])
       /\ (Delivers \/ post_table' # post_table) =>
             /\ si \in 1..Len(subs)
             /\ subs' = subs /\ si' = si
             /\ \A k \in DOMAIN g_dispatched :
                   g_dispatched'[k] # g_dispatched[k] => k[1] = sub.chat_id
             /\ \A r \in post_table' \ post_table :
                   r.chat_id = sub.chat_id /\ r.subreddit = sub.subreddit]_vars

\* chat 1 was polled and has unsubscribed; the cycle in progress began after
\* that and is delivering a post to chat 2
C33_Witness ==
    /\ \E r \in post_table : r.chat_id = 1
    /\ \A s \in Subreddits : ~HasRow(subscription_table, 1, s)
    /\ \A s \in Subreddits : ~HasRow(subs, 1, s)
    /\ pc = "mark"
    /\ sub.chat_id = 2
    /\ g_dispatched[<<2, posts[pi].id>>] > 0

\* the posts of fn_in.fetched that pass the filter of the command
GetWanted ==
    LET Wanted(p) == ~filter_rejects(effective_filter(fn_in[1].args), p)
    IN SelectSeq(fn_in[1].fetched[1], Wanted)

\* C34: a Get command leaves the post table and the subscription table as
\* they were; it hands handle_new_post the fetched posts that pass the
\* filter, in order and whether or not the chat has seen them (up to a
\* post whose delivery panics), and each of them is seen afterwards exactly
\* if it was seen before.
C34_GetLeavesStoreUnchanged ==
    [][/\ st_post' = st_post
       /\ st_subscription' = st_subscription
       /\ (fn_in' # None /\ fn_in'[1].fetched # None) =>
             /\ Len(fn_out'[1].calls) <= Len(GetWanted')
             /\ \A i \in 1..Len(fn_out'[1].calls) :
                   /\ fn_out'[1].calls[i].post_id = GetWanted'[i].id
                   /\ is_post_seen(st_post', fn_in'[1].chat_id, GetWanted'[i])
                         = is_post_seen(st_post, fn_in'[1].chat_id, GetWanted'[i])
             /\ (/\ Len(fn_out'[1].calls) < Len(GetWanted')
                 /\ Len(fn_out'[1].calls) > 0)
                   => fn_out'[1].calls[Len(fn_out'[1].calls)].result = "panic"
             /\ (fn_out'[1].calls = <<>>) = (GetWanted' = <<>>)]_vars

\* Get delivered two posts to chat 1, the first seen by the chat before the
\* command, the second not seen before and not seen after it
C34_Witness ==
    /\ fn_in # None /\ fn_out # None
    /\ fn_in[1].chat_id = 1
    /\ Len(fn_out[1].calls) = 2
    /\ fn_out[1].calls[1].post_id = "p2"
    /\ fn_out[1].calls[2].post_id = "p3"
    /\ fn_out[1].calls[2].result = "ok"
    /\ is_post_seen(st_post, 1, [id |-> "p2"])
    /\ ~is_post_seen(st_post, 1, [id |-> "p3"])
    /\ StoredSubscriptions = st_subscription

\* C35 as stated: unsubscribe(C, S) leaves every row of another chat, and
\* every row of C whose subreddit differs from S when case is ignored, in
\* the table.
C35_UnsubscribeDeletesOnlyTheNamed ==
    [][(st_last' # None /\ st_last'[1].op = "unsubscribe") =>
          \A i \in 1..Len(st_subscription) :
             (\/ st_subscription[i].chat_id # st_last'[1].chat_id
              \/ Lower(st_subscription[i].subreddit) # Lower(st_last'[1].arg))
                => \E j \in 1..Len(st_subscription') :
                      st_subscription'[j] = st_subscription[i]]_vars

C37_FirstSignalNeverExits ==
    [][(signals = 0 /\ signals' = 1) => alive']_vars

\* C38: a message without a sender, or from a user who is not in
\* authorized_user_ids, does not reach handle_command: the store is not
\* opened and both tables stay as they were, no content-source function is
\* called, no post is delivered and nothing is sent to the chat.
C38_UnauthorizedNotHandled ==
    [][(/\ fn_in' # None
        /\ \/ fn_in'[1].from = None
           \/ fn_in'[1].from[1] \notin config.authorized_user_ids)
          => /\ fn_out'[1].endpoint = "default_handler"
             /\ ~fn_out'[1].opened
             /\ st_subscription' = st_subscription
             /\ st_post' = st_post
             /\ fn_out'[1].source = {}
             /\ fn_out'[1].calls = <<>>
             /\ fn_out'[1].reply = "none"]_vars

\* user 11 is authorized and has subscribed chat 1; user 12, who is not,
\* sends '/unsub %' to the same chat, and the subscription is still there
C38_Witness ==
    /\ config.authorized_user_ids = {11}
    /\ HasRow(st_subscription, 1, <<"A", "w">>)
    /\ fn_in = Some([from |-> Some(12), chat_id |-> 1,
                     command |-> Some(ParsedCommand("unsub", NoArgs, <<"%">>))])
    /\ fn_out # None
    /\ fn_out[1].endpoint = "default_handler"

\* C39: a seen-post record written for chat C changes is_post_seen for no
\* other chat, and a post that another chat has seen is handed to
\* handle_new_post for the chat being polled like any other post: whenever
\* that chat has not seen it, it passes the filter and the poll is not
\* first-run suppressed.
C39_SeenPerChat ==
    [][/\ \A r \in post_table' \ post_table :
             \A c \in Chats \ {r.chat_id} : \A id \in PostIds :
                is_post_seen(post_table', c, [id |-> id])
                   = is_post_seen(post_table, c, [id |-> id])
       /\ (/\ pc = "post" /\ pi <= Len(posts)
           /\ <<pc, pi>>' # <<pc, pi>>
           /\ ~only_mark_seen
           /\ ~filter_rejects(effective_filter(sub), posts[pi])
           /\ ~\E r \in post_table :
                  r.post_id = posts[pi].id /\ r.chat_id = sub.chat_id)
             => pc' = "handle"]_vars

\* a post that chat 1 has seen is being delivered to chat 2
C39_Witness ==
    /\ pc = "handle"
    /\ sub.chat_id = 2
    /\ is_post_seen(post_table, 1, posts[pi])
    /\ ~is_post_seen(post_table, 2, posts[pi])
    /\ g_dispatched[<<1, posts[pi].id>>] > 0

\* C40 as stated: the reply to Unsub is the 'Not subscribed' error exactly
\* when unsubscribe deleted no row, and a text that begins with
\* 'Unsubscribed from r/' exactly when it deleted one.
C40_UnsubReplies ==
    [][(fn_in' # None /\ fn_in'[1].cmd = "unsub") =>
          LET deleted == Len(st_subscription') < Len(st_subscription)
          IN /\ (fn_out'[1] = "Error: Not subscribed to r/") = ~deleted
             /\ (fn_out'[1] \in {"Unsubscribed from r/true",
                                 "Unsubscribed from r/false"}) = deleted]_vars

====
